---- MODULE Spec2Model ----
(***************************************************************************)
(* OmniSupply orchestration engine.                                        *)
(*                                                                         *)
(*   Spec    the supervisor pipeline (src/src/supervisor/orchestrator.py)  *)
(*           running the registered workers through BaseAgent.execute      *)
(*           (src/src/agents/base.py) in parallel or sequential mode.      *)
(*   SpecDA  one execute call of one worker: the data-analyst graph        *)
(*           (src/src/agents/data_analyst.py) or the risk-agent graph      *)
(*           (src/src/agents/risk_agent.py) run by the graph executor      *)
(*           inside BaseAgent.execute.                                     *)
(*   SpecFB  the AgentRegistry (src/src/agents/base.py): register and      *)
(*           find_best_agent over the workers' can_handle scores.          *)
(***************************************************************************)
EXTENDS Integers, Sequences, FiniteSets, TLC

\* ------------------------------------------------------------------ bounds
\* Longest list of agent names the routing inference call returns.
MaxSel == 3

\* ------------------------------------------------------------- value sets
\* Strings are modelled as tuples of their fragments: str(e) is <<e>>,
\* f"Planning failed: {e}" is <<"Planning failed: ", e>>, and None is <<>>.
None == <<>>

\* Messages of the exceptions raised by collaborators (str(e)).
ErrMsgs == {"e1", "e2"}

\* Messages of the exceptions of a worker call, by where they are raised:
\* inside graph.invoke, inside _format_result, by an overriding execute.
GraphErrMsgs == {"node raised"}
FormatErrMsgs == {"format raised"}
OverridingErrMsgs == {"execute raised"}

\* Queries handed to SupervisorAgent.execute.
Queries == {"show sales data", "hello"}

\* AgentRegistry.agents in registration order.  The first two workers run
\* BaseAgent.execute unchanged; stub_agent is a BaseAgent subclass that
\* overrides execute, so its call can raise to the caller.
Registered == <<"data_analyst", "risk_agent", "stub_agent">>

\* Registered workers whose execute is overridden.
Overriding == {"stub_agent"}

\* Names the routing inference call may return: the registered ones and one
\* name that is not in the Registry.
AgentNames == {"data_analyst", "risk_agent", "stub_agent", "ghost_agent"}

\* AgentRegistry.list_agents
list_agents == {Registered[i] : i \in DOMAIN Registered}

\* Sequences over S of length at most n.
SeqUpTo(S, n) == UNION {[1..m -> S] : m \in 0..n}

\* ---------------------------------------------------- Python dict (ordered)
\* A dict is a sequence of <<key, value>> pairs in insertion order.
DictKeys(d) == {d[i][1] : i \in DOMAIN d}

DictGet(d, key) == d[CHOOSE i \in DOMAIN d : d[i][1] = key][2]

\* d[key] = v: an existing key keeps its position, a new key is appended.
DictSet(d, key, v) ==
    IF key \in DictKeys(d)
    THEN [i \in DOMAIN d |-> IF d[i][1] = key THEN <<key, v>> ELSE d[i]]
    ELSE Append(d, <<key, v>>)

\* ------------------------------------------------------------ AgentResult
\* AgentResult(agent_name, query, success, error, insights, ...); fields the
\* constructor call omits take their defaults (empty list, empty dict, None).
AgentResult(name, query, success, err, insights, recommendations, metrics) ==
    [agent_name |-> name, query |-> query, success |-> success, error |-> err,
     insights |-> insights, recommendations |-> recommendations,
     metrics |-> metrics]

\* The value of the error field of an AgentResult whose constructor call
\* does not pass error (Result.error is an optional string).
AgentResult_error_default == None

\* Mutant: the except clause of BaseAgent.execute drops the message.
BaseAgent_error_result_mut(name, query, e) ==
    AgentResult(name, query, FALSE, None, <<>>, <<>>, <<>>)

\* The Result built in the except clause of BaseAgent.execute.
BaseAgent_error_result(name, query, e) ==
    AgentResult(name, query, FALSE, <<e>>, <<>>, <<>>, <<>>)

\* The Result built in the except clause of the fan-in loop.
Parallel_error_result(name, query, e) ==
    AgentResult(name, query, FALSE, <<e>>, <<>>, <<>>, <<>>)

\* The Result built in the except clause of the sequential loop.
Sequential_error_result(name, query, e) ==
    AgentResult(name, query, FALSE, <<e>>, <<>>, <<>>, <<>>)

\* What a worker-supplied _format_result may return for a final graph state:
\* a successful Result with the worker's findings (a list of insights, one
\* of them worded alike by every worker, and a list of recommendations), or
\* a Result with success=false whose insights and metrics carry the error
\* the graph left in State.
FormattedResults(name, query) ==
    {AgentResult(name, query, TRUE, AgentResult_error_default,
                 << <<"insight of ", name>>, <<"shared insight">> >>,
                 << <<"recommendation of ", name>> >>,
                 <<"metrics of ", name>>)}
    \cup {AgentResult(name, query, FALSE, AgentResult_error_default,
                      << <<"**Error**: ", e>> >>, <<>>,
                      <<"metrics of ", name, "error", e>>) : e \in {"e1"}}

\* --------------------------------------------------------------- variables
VARIABLES
    pc,            \* node of the supervisor graph about to run; "idle", "END"
    state,         \* SupervisorState
    stages,        \* history: the supervisor nodes that have run, in order
    ex_pc,         \* position inside execute_agents_node
    tasks,         \* agent names of the calls of this fan-out / sequence
    k,             \* index in tasks of the call being awaited / made
    results,       \* the local dict `results`
    accumulated_context,  \* sequential: the '<name>_result' entries added
    calls,         \* per task: the state of its agent.execute call
    exec_log,      \* history: names whose execute call began, in order
    selection,     \* history: the outcome of the routing inference call
    da,            \* the data-analyst run (SpecDA)
    ra,            \* the risk-agent run (SpecDA)
    fb,            \* the Registry and its last find_best_agent call (SpecFB)
    fn,            \* a default-policy worker and the last scoring call (SpecFn)
    em,            \* the email-agent run up to its conditional edge (SpecDA)
    cx             \* supervisor execute calls with a caller's context (SpecDA)

vars == <<pc, state, stages, ex_pc, tasks, k, results, accumulated_context,
          calls, exec_log, selection, da, ra, fb, fn, em, cx>>

supVars == <<pc, state, stages, ex_pc, tasks, k, results,
             accumulated_context, calls, exec_log, selection, fb, fn, em, cx>>

\* Objects that can be the `context` dict of a worker's State.
StateContextObj == <<"state['context']">>
AccumulatedContextObj == <<"accumulated_context">>
FreshContextObj(i) == <<"{}", i>>

\* ------------------------------------------------------------- BaseAgent
\* _prepare_state: the `context` entry of the initial State is the dict the
\* caller passed, or a new empty dict when that one is None or empty.
BaseAgent_prepare_state_context(contextObj, contextIsEmpty, fresh) ==
    IF contextIsEmpty THEN fresh ELSE contextObj

\* ---------------------------------------------------------- confidence
\* A confidence score is the exact fraction num / den.
Score(num, den) == [num |-> num, den |-> den]

Gt(a, b) == a.num * b.den > b.num * a.den

Le(a, b) == a.num * b.den <= b.num * a.den

Min(a, b) == IF a < b THEN a ELSE b

\* `word in query_lower`: the keywords and capability words that occur as
\* substrings of the lower-cased query ("late" occurs in "calculate",
\* "order" in "orders").
Substrings(query) ==
    CASE query = "show sales data" -> {"data", "sales", "show"}
      [] query = "hello" -> {}
      [] query = "show data" -> {"data", "show"}
      [] query = "show sales data risk alert delivery" ->
            {"alert", "data", "delivery", "risk", "sales", "show"}
      [] query = "late delivery risk" -> {"delivery", "late", "risk"}
      [] query = "order stock" -> {"order", "stock"}
      [] query = "calculate risk" -> {"calculate", "late", "risk"}
      [] query = "Show Orders" -> {"order", "orders", "show"}
      [] query = "show data query sql analyze calculate trend compare" ->
            {"analyze", "calculate", "compare", "data", "late", "query",
             "show", "sql", "trend"}

\* The number of keywords of the list that occur in the query.
Hits(keywords, query) ==
    Cardinality({i \in DOMAIN keywords : keywords[i] \in Substrings(query)})

\* Mutant: the sum of the keyword weights is returned without min(.., 1.0).
keyword_can_handle_unclamped(high_confidence, medium_confidence, query) ==
    Score(15 * Hits(high_confidence, query)
            + 8 * Hits(medium_confidence, query), 100)

\* The can_handle override of a keyword-weighted worker: 0.15 per
\* high-confidence keyword, 0.08 per medium-confidence keyword, at most 1.0.
keyword_can_handle(high_confidence, medium_confidence, query) ==
    Score(Min(15 * Hits(high_confidence, query)
                + 8 * Hits(medium_confidence, query), 100), 100)

\* get_capabilities of a worker that keeps BaseAgent.can_handle, lower-cased
\* and split into words.
get_capabilities(name) ==
    IF name = "stub_agent"
    THEN << <<"stock", "lookup">>, <<"order", "tracking">> >>
    ELSE <<>>

\* Mutant: a capability counts only when all of its words occur in the query.
default_can_handle_all(capabilities, query) ==
    IF capabilities = <<>> THEN Score(0, 1)
    ELSE LET matches ==
                 Cardinality({i \in DOMAIN capabilities :
                     \A j \in DOMAIN capabilities[i] :
                         capabilities[i][j] \in Substrings(query)})
         IN Score(Min(matches, Len(capabilities)), Len(capabilities))

\* BaseAgent.can_handle: the fraction of the capabilities that share a word
\* with the query, 0.0 for a worker without capabilities.
default_can_handle(capabilities, query) ==
    IF capabilities = <<>> THEN Score(0, 1)
    ELSE LET matches ==
                 Cardinality({i \in DOMAIN capabilities :
                     \E j \in DOMAIN capabilities[i] :
                         capabilities[i][j] \in Substrings(query)})
         IN Score(Min(matches, Len(capabilities)), Len(capabilities))

\* can_handle(query) of each worker.
can_handle(name, query) ==
    CASE name = "data_analyst" ->
            keyword_can_handle(
                <<"data", "query", "sql", "show", "analyze", "calculate",
                  "trend", "compare">>,
                <<"revenue", "sales", "orders", "products", "kpi",
                  "metrics">>, query)
      [] name = "risk_agent" ->
            keyword_can_handle(
                <<"risk", "alert", "critical", "issue", "problem", "delay",
                  "late">>,
                <<"delivery", "inventory", "stockout", "shortage", "quality",
                  "defect", "margin">>, query)
      [] OTHER -> default_can_handle(get_capabilities(name), query)

\* The confidence threshold of find_best_agent, 0.3.
ConfidenceThreshold == Score(3, 10)

\* Mutant: the threshold test is >= instead of >.
AgentRegistry_find_best_agent_ge(agents, query) ==
    IF agents = <<>> THEN <<>>
    ELSE LET best == CHOOSE i \in DOMAIN agents :
                        /\ \A j \in DOMAIN agents :
                              Le(can_handle(agents[j], query),
                                 can_handle(agents[i], query))
                        /\ \A j \in 1..(i - 1) :
                              Gt(can_handle(agents[i], query),
                                 can_handle(agents[j], query))
         IN IF ~Gt(ConfidenceThreshold, can_handle(agents[best], query))
            THEN <<agents[best]>>
            ELSE <<>>

\* Mutant: among equal maxima the last registered worker wins.
AgentRegistry_find_best_agent_last(agents, query) ==
    IF agents = <<>> THEN <<>>
    ELSE LET best == CHOOSE i \in DOMAIN agents :
                        /\ \A j \in DOMAIN agents :
                              Le(can_handle(agents[j], query),
                                 can_handle(agents[i], query))
                        /\ \A j \in (i + 1)..Len(agents) :
                              Gt(can_handle(agents[i], query),
                                 can_handle(agents[j], query))
         IN IF Gt(can_handle(agents[best], query), ConfidenceThreshold)
            THEN <<agents[best]>>
            ELSE <<>>

\* AgentRegistry.find_best_agent on the Registry whose names are, in
\* registration order, agents: <<name>> of the first worker with the maximum
\* score when that score exceeds the threshold, else <<>> (None).
AgentRegistry_find_best_agent(agents, query) ==
    IF agents = <<>> THEN <<>>
    ELSE LET best == CHOOSE i \in DOMAIN agents :
                        /\ \A j \in DOMAIN agents :
                              Le(can_handle(agents[j], query),
                                 can_handle(agents[i], query))
                        /\ \A j \in 1..(i - 1) :
                              Gt(can_handle(agents[i], query),
                                 can_handle(agents[j], query))
         IN IF Gt(can_handle(agents[best], query), ConfidenceThreshold)
            THEN <<agents[best]>>
            ELSE <<>>

\* self.registry.find_best_agent(state['user_query']) of the supervisor.
find_best_agent(query) == AgentRegistry_find_best_agent(Registered, query)

\* -------------------------------------------------------------- supervisor
\* Mutant: select_agents is followed by aggregate_results.
Sup_edge_skip(node) ==
    CASE node = "parse_query" -> "plan_task"
      [] node = "plan_task" -> "select_agents"
      [] node = "select_agents" -> "aggregate_results"
      [] node = "execute_agents" -> "aggregate_results"
      [] node = "aggregate_results" -> "generate_report"
      [] node = "generate_report" -> "END"

\* The edges of the supervisor graph (_build_graph).
Sup_edge(node) ==
    CASE node = "parse_query" -> "plan_task"
      [] node = "plan_task" -> "select_agents"
      [] node = "select_agents" -> "execute_agents"
      [] node = "execute_agents" -> "aggregate_results"
      [] node = "aggregate_results" -> "generate_report"
      [] node = "generate_report" -> "END"

\* initial_state of SupervisorAgent.execute.
Sup_initial_state(query) ==
    [user_query |-> query,
     context |-> [timestamp |-> FALSE, available_agents |-> FALSE,
                  execution_order |-> "absent",
                  aggregated |-> [kind |-> "absent"]],
     task_plan |-> None,
     selected_agents |-> <<>>,
     agent_results |-> <<>>,
     final_report |-> [kind |-> "None"],
     executive_summary |-> None,
     error |-> None]

\* Outcomes of the planning inference call.
PlannerOutcomes ==
    {[ok |-> TRUE, e |-> "-"]} \cup {[ok |-> FALSE, e |-> "e1"]}

\* Outcomes of the routing inference call: an AgentSelection or a failure.
RouterOutcomes ==
    {[ok |-> TRUE, agents |-> a, execution_order |-> o, e |-> "-"] :
        a \in SeqUpTo(AgentNames, MaxSel), o \in {"parallel", "sequential"}}
    \cup {[ok |-> FALSE, agents |-> <<>>, execution_order |-> "-", e |-> "e1"]}

\* No routing inference call has been made.
NoSelection ==
    [ok |-> FALSE, agents |-> <<>>, execution_order |-> "-", e |-> "-"]

\* Outcomes of the summarizing inference call.
SummarizerOutcomes ==
    {[ok |-> TRUE, e |-> "-"]} \cup {[ok |-> FALSE, e |-> "e1"]}

parse_query_node(st) ==
    [st EXCEPT !.context.timestamp = TRUE,
               !.context.available_agents = TRUE]

\* Mutant: the except clause of plan_task_node only logs.
plan_task_node_mut(st, out) ==
    IF out.ok
    THEN [st EXCEPT !.task_plan = <<"plan">>]
    ELSE st

plan_task_node(st, out) ==
    IF out.ok
    THEN [st EXCEPT !.task_plan = <<"plan">>]
    ELSE [st EXCEPT !.error = <<"Planning failed: ", out.e>>]

\* Mutant: the names of the selection are used as they are.
valid_agents_mut(agents) == agents

\* valid_agents: the names of selection.agents that are registered.
valid_agents(agents) == SelectSeq(agents, LAMBDA a : a \in list_agents)

\* Mutant: an empty valid_agents is stored without the best-match fallback.
select_agents_node_mut(st, out) ==
    IF out.ok
    THEN [st EXCEPT !.selected_agents = valid_agents(out.agents),
                    !.context.execution_order = out.execution_order]
    ELSE [st EXCEPT !.error = <<"Agent selection failed: ", out.e>>]

\* Mutant: a failed routing call also falls back to the best match.
select_agents_node_fallback(st, out) ==
    IF out.ok
    THEN LET valid == valid_agents(out.agents)
             chosen == IF valid = <<>> THEN find_best_agent(st.user_query)
                       ELSE valid
         IN [st EXCEPT !.selected_agents = chosen,
                       !.context.execution_order = out.execution_order]
    ELSE [st EXCEPT !.error = <<"Agent selection failed: ", out.e>>,
                    !.selected_agents = find_best_agent(st.user_query)]

\* SupervisorAgent.select_agents_node
select_agents_node(st, out) ==
    IF out.ok
    THEN LET valid == valid_agents(out.agents)
             chosen == IF valid = <<>> THEN find_best_agent(st.user_query)
                       ELSE valid
         IN [st EXCEPT !.selected_agents = chosen,
                       !.context.execution_order = out.execution_order]
    ELSE [st EXCEPT !.error = <<"Agent selection failed: ", out.e>>]

\* Whether the dict state['context'] has no entry.
ContextIsEmpty(st) ==
    /\ ~st.context.timestamp
    /\ ~st.context.available_agents
    /\ st.context.execution_order = "absent"
    /\ st.context.aggregated.kind = "absent"

\* state['context'].get('execution_order', 'parallel')
execution_order(st) ==
    IF st.context.execution_order = "absent" THEN "parallel"
    ELSE st.context.execution_order

\* Mutant: the loop of aggregate_results_node does not test result.success.
SuccessfulResults_mut(ar) == ar

\* The Results with success=true, in agent_results order.
SuccessfulResults(ar) == SelectSeq(ar, LAMBDA kv : kv[2].success)

RECURSIVE Concat(_, _)
\* list.extend over the Results of ar in order: the concatenation of the
\* lists in field f.
Concat(ar, f) ==
    IF ar = <<>> THEN <<>>
    ELSE ar[1][2][f] \o Concat(Tail(ar), f)

aggregate_results_node(st) ==
    IF st.agent_results = <<>> THEN st
    ELSE LET ok == SuccessfulResults(st.agent_results)
         IN [st EXCEPT !.context.aggregated =
                [kind |-> "set",
                 insights |-> Concat(ok, "insights"),
                 recommendations |-> Concat(ok, "recommendations"),
                 metrics |-> [i \in DOMAIN ok |-> <<ok[i][1], ok[i][2].metrics>>]]]

\* _build_report: the markdown report, by its parts.
build_report(st) ==
    [kind |-> "report",
     agents_used |-> st.selected_agents,
     summary |-> <<"summary">>,
     details |-> [i \in DOMAIN st.agent_results |->
                    <<st.agent_results[i][1], st.agent_results[i][2].success>>]]

\* Mutant: generate_report_node summarizes without testing agent_results.
generate_report_node_unguarded(st, out) ==
    IF out.ok
    THEN [st EXCEPT !.executive_summary = <<"summary">>,
                    !.final_report = build_report(st)]
    ELSE [st EXCEPT !.error = <<"Report generation failed: ", out.e>>,
                    !.final_report = [kind |-> "error", e |-> out.e]]

\* Mutant: the except clause of generate_report_node leaves final_report
\* unset.
generate_report_node_mut(st, out) ==
    IF st.agent_results = <<>>
    THEN [st EXCEPT !.final_report = [kind |-> "no_results"]]
    ELSE IF out.ok
         THEN [st EXCEPT !.executive_summary = <<"summary">>,
                         !.final_report = build_report(st)]
         ELSE [st EXCEPT !.error = <<"Report generation failed: ", out.e>>]

generate_report_node(st, out) ==
    IF st.agent_results = <<>>
    THEN [st EXCEPT !.final_report = [kind |-> "no_results"]]
    ELSE IF out.ok
         THEN [st EXCEPT !.executive_summary = <<"summary">>,
                         !.final_report = build_report(st)]
         ELSE [st EXCEPT !.error = <<"Report generation failed: ", out.e>>,
                         !.final_report = [kind |-> "error", e |-> out.e]]

\* ------------------------------------------- execute_agents_node, by steps
\* The agent.execute call of one task.  status: "created" (parallel: the
\* coroutine object of asyncio.to_thread exists, nothing runs yet),
\* "not_called" (sequential: the loop has not reached it), "invoke" (inside
\* the call, before or in graph.invoke), "format" (in _format_result),
\* "returned", "raised".  ctx: the object that is State.context of the call.
\* received: the '<name>_result' entries that object held when it was
\* handed to the call.  caught: the exception caught inside
\* BaseAgent.execute, if any.
NewCall(name, status) ==
    [name |-> name, status |-> status, ctx |-> <<>>, received |-> <<>>,
     caught |-> None, exc |-> "-", out |-> [kind |-> "none"]]

Finished(call) == call.status \in {"returned", "raised"}

Running(call) == call.status \in {"invoke", "format"}

\* _execute_parallel, first loop: one coroutine per name that get_agent finds.
Parallel_tasks(agent_names) ==
    SelectSeq(agent_names, LAMBDA a : a \in list_agents)

\* Mutant: the fan-in returns after the first task has completed.
Parallel_loop_done_mut(i, ts) == i > 1

\* _execute_parallel, second loop: the loop is over when every task of the
\* list has been awaited.
Parallel_loop_done(i, ts) == i > Len(ts)

\* Mutant: results are keyed by arrival position (the registry order)
\* instead of by the task's agent_name.
Parallel_store_mut(res, name, call, query) ==
    DictSet(res, Registered[(Len(res) % Len(Registered)) + 1],
            IF call.status = "returned" THEN call.out
            ELSE Parallel_error_result(name, query, call.exc))

\* _execute_parallel, second loop body after `await task`: the Result, or
\* the failed Result of the except clause, goes under the task's agent_name.
Parallel_store(res, name, call, query) ==
    DictSet(res, name,
            IF call.status = "returned" THEN call.out
            ELSE Parallel_error_result(name, query, call.exc))

\* Mutant: the sequential loop stops at the first call that raised.
Sequential_loop_done_mut(i, names) ==
    \/ i > Len(names)
    \/ (i > 1 /\ calls[i - 1].status = "raised")

\* _execute_sequential: the loop is over when every name has been visited.
Sequential_loop_done(i, names) == i > Len(names)

\* Mutant: the except clause of the sequential loop records nothing.
Sequential_store_mut(res, name, call, query) ==
    IF call.status = "returned" THEN DictSet(res, name, call.out) ELSE res

\* _execute_sequential, loop body after the call: results[agent_name].
Sequential_store(res, name, call, query) ==
    DictSet(res, name,
            IF call.status = "returned" THEN call.out
            ELSE Sequential_error_result(name, query, call.exc))

\* The context key under which the sequential loop stores a worker's Result.
ResultKey(name) == <<name, "_result">>

\* Mutant: the loop body never adds a Result to accumulated_context.
Sequential_accumulate_mut(acc, name, call) == acc

\* _execute_sequential: accumulated_context[f'{agent_name}_result'] = result
\* runs after every call that returned; the except clause adds nothing.
Sequential_accumulate(acc, name, call) ==
    IF call.status = "returned" THEN DictSet(acc, ResultKey(name), call.out)
    ELSE acc

\* SupervisorAgent.execute up to graph.invoke: the initial State is built.
Sup_execute ==
    /\ pc = "idle"
    /\ \E q \in Queries : state' = Sup_initial_state(q)
    /\ pc' = "parse_query"
    /\ UNCHANGED <<stages, ex_pc, tasks, k, results, accumulated_context,
                   calls, exec_log, da, ra, selection, fb, fn, em, cx>>

Sup_parse_query_node ==
    /\ pc = "parse_query"
    /\ state' = parse_query_node(state)
    /\ stages' = Append(stages, "parse_query")
    /\ pc' = Sup_edge("parse_query")
    /\ UNCHANGED <<ex_pc, tasks, k, results, accumulated_context, calls,
                   exec_log, da, ra, selection, fb, fn, em, cx>>

Sup_plan_task_node ==
    /\ pc = "plan_task"
    /\ \E out \in PlannerOutcomes : state' = plan_task_node(state, out)
    /\ stages' = Append(stages, "plan_task")
    /\ pc' = Sup_edge("plan_task")
    /\ UNCHANGED <<ex_pc, tasks, k, results, accumulated_context, calls,
                   exec_log, da, ra, selection, fb, fn, em, cx>>

Sup_select_agents_node ==
    /\ pc = "select_agents"
    /\ \E out \in RouterOutcomes :
          /\ state' = select_agents_node(state, out)
          /\ selection' = out
    /\ stages' = Append(stages, "select_agents")
    /\ pc' = Sup_edge("select_agents")
    /\ UNCHANGED <<ex_pc, tasks, k, results, accumulated_context, calls,
                   exec_log, da, ra, fb, fn, em, cx>>

\* execute_agents_node with no selected agents: returns the state as it is.
Sup_execute_agents_none ==
    /\ pc = "execute_agents" /\ ex_pc = "none"
    /\ state.selected_agents = <<>>
    /\ stages' = Append(stages, "execute_agents")
    /\ pc' = Sup_edge("execute_agents")
    /\ UNCHANGED <<state, ex_pc, tasks, k, results, accumulated_context,
                   calls, exec_log, da, ra, selection, fb, fn, em, cx>>

\* execute_agents_node enters _execute_parallel: the first loop builds the
\* list of (agent_name, coroutine) pairs; no coroutine has started.
Par_create_tasks ==
    /\ pc = "execute_agents" /\ ex_pc = "none"
    /\ state.selected_agents # <<>>
    /\ execution_order(state) = "parallel"
    /\ tasks' = Parallel_tasks(state.selected_agents)
    /\ calls' = [i \in DOMAIN tasks' |-> NewCall(tasks'[i], "created")]
    /\ results' = <<>>
    /\ k' = 1
    /\ ex_pc' = "par_loop"
    /\ UNCHANGED <<pc, state, stages, accumulated_context, exec_log, da, ra, selection, fb, fn, em, cx>>

\* `await task`: the coroutine of task k starts; asyncio.to_thread hands
\* agent.execute(query, context) to a thread and the loop waits for it.
Par_await_task ==
    /\ ex_pc = "par_loop"
    /\ ~Parallel_loop_done(k, tasks)
    /\ calls' = [calls EXCEPT ![k].status = "invoke",
                    ![k].ctx = BaseAgent_prepare_state_context(
                                   StateContextObj, ContextIsEmpty(state),
                                   FreshContextObj(k))]
    /\ exec_log' = Append(exec_log, tasks[k])
    /\ ex_pc' = "par_wait"
    /\ UNCHANGED <<pc, state, stages, tasks, k, results,
                   accumulated_context, da, ra, selection, fb, fn, em, cx>>

\* `await task` resumes with the Result or the exception of task k.
Par_resume ==
    /\ ex_pc = "par_wait"
    /\ Finished(calls[k])
    /\ results' = Parallel_store(results, tasks[k], calls[k], state.user_query)
    /\ k' = k + 1
    /\ ex_pc' = "par_loop"
    /\ UNCHANGED <<pc, state, stages, tasks, accumulated_context, calls,
                   exec_log, da, ra, selection, fb, fn, em, cx>>

\* _execute_parallel returns; execute_agents_node stores the results.
Par_return ==
    /\ ex_pc = "par_loop"
    /\ Parallel_loop_done(k, tasks)
    /\ state' = [state EXCEPT !.agent_results = results]
    /\ stages' = Append(stages, "execute_agents")
    /\ ex_pc' = "none"
    /\ pc' = Sup_edge("execute_agents")
    /\ UNCHANGED <<tasks, k, results, accumulated_context, calls, exec_log,
                   da, ra, selection, fb, fn, em, cx>>

\* execute_agents_node enters _execute_sequential:
\* accumulated_context = context.copy().
Seq_enter ==
    /\ pc = "execute_agents" /\ ex_pc = "none"
    /\ state.selected_agents # <<>>
    /\ execution_order(state) # "parallel"
    /\ tasks' = state.selected_agents
    /\ calls' = [i \in DOMAIN tasks' |-> NewCall(tasks'[i], "not_called")]
    /\ results' = <<>>
    /\ accumulated_context' = <<>>
    /\ k' = 1
    /\ ex_pc' = "seq_loop"
    /\ UNCHANGED <<pc, state, stages, exec_log, da, ra, selection, fb, fn, em, cx>>

\* The loop body calls agent.execute(query, accumulated_context).
Seq_call ==
    /\ ex_pc = "seq_loop"
    /\ ~Sequential_loop_done(k, tasks)
    /\ tasks[k] \in list_agents
    /\ calls' = [calls EXCEPT ![k].status = "invoke",
                    ![k].ctx = BaseAgent_prepare_state_context(
                                   AccumulatedContextObj,
                                   ContextIsEmpty(state)
                                      /\ accumulated_context = <<>>,
                                   FreshContextObj(k)),
                    ![k].received = accumulated_context]
    /\ exec_log' = Append(exec_log, tasks[k])
    /\ ex_pc' = "seq_wait"
    /\ UNCHANGED <<pc, state, stages, tasks, k, results,
                   accumulated_context, da, ra, selection, fb, fn, em, cx>>

\* The call is over: its Result is recorded and added to the context of
\* the later workers, or the except clause records a failed Result.
Seq_resume ==
    /\ ex_pc = "seq_wait"
    /\ Finished(calls[k])
    /\ results' = Sequential_store(results, tasks[k], calls[k],
                                   state.user_query)
    /\ accumulated_context' =
           Sequential_accumulate(accumulated_context, tasks[k], calls[k])
    /\ k' = k + 1
    /\ ex_pc' = "seq_loop"
    /\ UNCHANGED <<pc, state, stages, tasks, calls, exec_log, da, ra, selection, fb, fn, em, cx>>

\* _execute_sequential returns; execute_agents_node stores the results.
Seq_return ==
    /\ ex_pc = "seq_loop"
    /\ Sequential_loop_done(k, tasks)
    /\ state' = [state EXCEPT !.agent_results = results]
    /\ stages' = Append(stages, "execute_agents")
    /\ ex_pc' = "none"
    /\ pc' = Sup_edge("execute_agents")
    /\ UNCHANGED <<tasks, k, results, accumulated_context, calls, exec_log,
                   da, ra, selection, fb, fn, em, cx>>

\* ------------------------------------------- BaseAgent.execute, by steps
\* graph.invoke of a running call returns the final State, or raises (a
\* node function raised, or the executor gave up); the except clause turns
\* the exception into a failed Result that execute returns.
BaseAgent_graph_invoke(i) ==
    /\ calls[i].status = "invoke"
    /\ calls[i].name \notin Overriding
    /\ \/ calls' = [calls EXCEPT ![i].status = "format"]
       \/ \E e \in GraphErrMsgs :
            calls' = [calls EXCEPT
                        ![i].status = "returned",
                        ![i].caught = <<e>>,
                        ![i].out = BaseAgent_error_result(
                                       calls[i].name, state.user_query, e)]
    /\ UNCHANGED <<pc, state, stages, ex_pc, tasks, k, results,
                   accumulated_context, exec_log, da, ra, selection, fb, fn, em, cx>>

\* _format_result returns the worker's Result, or raises into the same
\* except clause.
BaseAgent_format_result(i) ==
    /\ calls[i].status = "format"
    /\ \/ \E r \in FormattedResults(calls[i].name, state.user_query) :
            calls' = [calls EXCEPT ![i].status = "returned", ![i].out = r]
       \/ \E e \in FormatErrMsgs :
            calls' = [calls EXCEPT
                        ![i].status = "returned",
                        ![i].caught = <<e>>,
                        ![i].out = BaseAgent_error_result(
                                       calls[i].name, state.user_query, e)]
    /\ UNCHANGED <<pc, state, stages, ex_pc, tasks, k, results,
                   accumulated_context, exec_log, da, ra, selection, fb, fn, em, cx>>

\* The execute of a worker that overrides it: returns a Result or raises.
Overriding_execute(i) ==
    /\ calls[i].status = "invoke"
    /\ calls[i].name \in Overriding
    /\ \/ \E r \in FormattedResults(calls[i].name, state.user_query) :
            calls' = [calls EXCEPT ![i].status = "returned", ![i].out = r]
       \/ \E e \in OverridingErrMsgs :
            calls' = [calls EXCEPT ![i].status = "raised", ![i].exc = e]
    /\ UNCHANGED <<pc, state, stages, ex_pc, tasks, k, results,
                   accumulated_context, exec_log, da, ra, selection, fb, fn, em, cx>>

Sup_aggregate_results_node ==
    /\ pc = "aggregate_results"
    /\ state' = aggregate_results_node(state)
    /\ stages' = Append(stages, "aggregate_results")
    /\ pc' = Sup_edge("aggregate_results")
    /\ UNCHANGED <<ex_pc, tasks, k, results, accumulated_context, calls,
                   exec_log, da, ra, selection, fb, fn, em, cx>>

Sup_generate_report_node ==
    /\ pc = "generate_report"
    /\ \E out \in SummarizerOutcomes : state' = generate_report_node(state, out)
    /\ stages' = Append(stages, "generate_report")
    /\ pc' = Sup_edge("generate_report")
    /\ UNCHANGED <<ex_pc, tasks, k, results, accumulated_context, calls,
                   exec_log, da, ra, selection, fb, fn, em, cx>>

\* ------------------------------------------------------- DataAnalystAgent
\* self.max_retries
max_retries == 2

\* The step limit of the graph executor: graph.invoke is called without a
\* recursion_limit, so the executor's default applies, and it raises
\* GraphRecursionError when a run needs more steps.
recursion_limit == 25

\* The key a node removed from the dict it returns (del state['error']).
Deleted == <<"<deleted>">>

\* The channels of the graph after graph.invoke wrote initial_state: of the
\* keys of _prepare_state only user_query and error belong to
\* DataAnalystState; the others have no value yet.
DA_initial_channels(query) ==
    [user_query |-> query,
     classification |-> None,
     sql_query |-> None,
     query_results |-> "absent",
     analysis |-> None,
     visualizations |-> "absent",
     error |-> None,
     retry_count |-> 0]

\* The executor applies the dict a node returns: every key of the dict
\* overwrites its channel, and a key the node deleted from the dict is no
\* update, so its channel keeps the value it had.
channel_update(old, returned) ==
    [returned EXCEPT !.error =
        IF returned.error = Deleted THEN old.error ELSE returned.error]

\* Outcomes of an inference call: a structured value or an exception.
LLMOutcomes == {[ok |-> TRUE, e |-> "-"]} \cup {[ok |-> FALSE, e |-> "e1"]}

\* Outcomes of db.execute_query: rows (possibly none) or an exception.
DBOutcomes ==
    {[ok |-> TRUE, rows |-> r, e |-> "-"] : r \in {"empty", "rows"}}
    \cup {[ok |-> FALSE, rows |-> "-", e |-> e] : e \in ErrMsgs}

DA_parse_query_node(st, out) ==
    IF out.ok
    THEN [st EXCEPT !.classification = <<"aggregation">>]
    ELSE [st EXCEPT !.error = <<"Query classification failed: ", out.e>>]

\* generate_sql_node reaches self.llm_sql.invoke.
generate_sql_calls_llm(st) ==
    /\ ~(st.error # None /\ st.retry_count >= max_retries)
    /\ st.classification # None

\* error_context: the text of the previous error that the prompt of the
\* generation call includes, or None.
error_context(st) ==
    IF st.error # None /\ st.retry_count > 0 THEN st.error ELSE None

\* candidate: the SQLQuery a successful generation call returns.
DA_generate_sql_node(st, out, candidate) ==
    IF st.error # None /\ st.retry_count >= max_retries THEN st
    ELSE IF st.classification = None
    THEN [st EXCEPT !.error = <<"No classification available">>]
    ELSE IF out.ok
    THEN [st EXCEPT !.sql_query = candidate, !.error = Deleted]
    ELSE [st EXCEPT !.error = <<"SQL generation failed: ", out.e>>]

\* execute_query_node reaches self.db.execute_query.
execute_query_calls_db(st) == st.sql_query # None

\* Mutant: the branch without a candidate increments retry_count too.
DA_execute_query_node_inc(st, out) ==
    IF st.sql_query = None
    THEN [st EXCEPT !.error = <<"No SQL query to execute">>,
                    !.retry_count = st.retry_count + 1]
    ELSE IF out.ok
    THEN [st EXCEPT !.query_results = out.rows, !.error = Deleted]
    ELSE [st EXCEPT !.error = <<"Query execution failed: ", out.e>>,
                    !.retry_count = st.retry_count + 1]

\* DataAnalystAgent.execute_query_node
DA_execute_query_node(st, out) ==
    IF st.sql_query = None
    THEN [st EXCEPT !.error = <<"No SQL query to execute">>]
    ELSE IF out.ok
    THEN [st EXCEPT !.query_results = out.rows, !.error = Deleted]
    ELSE [st EXCEPT !.error = <<"Query execution failed: ", out.e>>,
                    !.retry_count = st.retry_count + 1]

\* Mutant: a retry is still allowed when retry_count equals max_retries.
route_after_execution_le(st) ==
    IF st.error # None
    THEN (IF st.retry_count <= max_retries THEN "retry" ELSE "end")
    ELSE "analyze"

\* DataAnalystAgent._route_after_execution
route_after_execution(st) ==
    IF st.error # None
    THEN (IF st.retry_count < max_retries THEN "retry" ELSE "end")
    ELSE "analyze"

\* The key-to-target table of the conditional edge after execute_query.
RouteTable ==
    [analyze |-> "analyze_results", retry |-> "generate_sql", end |-> "END"]

RouteTarget(key) == RouteTable[key]

\* The nodes _build_graph adds to the data-analyst graph.
DA_nodes ==
    {"parse_query", "generate_sql", "execute_query", "analyze_results",
     "create_visualizations", "generate_response"}

\* analyze_results_node reaches self.llm_analyzer.invoke.
analyze_results_calls_llm(st) == st.query_results = "rows"

DA_analyze_results_node(st, out) ==
    IF st.query_results # "rows"
    THEN [st EXCEPT !.analysis = <<"No data returned from query.">>]
    ELSE IF out.ok
    THEN [st EXCEPT !.analysis = <<"analysis">>]
    ELSE [st EXCEPT !.analysis = <<"Analysis failed due to processing error.">>]

DA_create_visualizations_node(st) ==
    IF st.query_results # "rows"
    THEN [st EXCEPT !.visualizations = <<>>]
    ELSE [st EXCEPT !.visualizations =
            IF st.classification # None THEN <<"bar_chart">> ELSE <<>>]

DA_generate_response_node(st) == st

\* DataAnalystAgent._format_result: success is `not bool(state.get('error'))`;
\* the error text goes into insights and metrics, the error field of the
\* AgentResult is not passed and keeps its default None.
DA_format_result(st) ==
    [agent_name |-> "data_analyst",
     query |-> st.user_query,
     success |-> (st.error = None),
     error |-> AgentResult_error_default,
     insights |->
        (IF st.analysis # None THEN <<st.analysis>> ELSE <<>>)
        \o (IF st.error # None THEN <<<<"**Error**: ">> \o st.error>> ELSE <<>>),
     recommendations |->
        (IF st.analysis = <<"analysis">> THEN <<"recommendation">> ELSE <<>>),
     metrics |-> [rows_returned |-> st.query_results,
                  sql_query |-> st.sql_query,
                  query_type |-> st.classification,
                  visualizations_recommended |-> st.visualizations,
                  error |-> st.error]]

\* The data-analyst run: the node about to run, the steps the executor has
\* run, the channels, the Result of execute, and history (g): how often
\* generate_sql was entered, the generation and execution calls made, the
\* failed executions and the last of their errors, whether every
\* generation so far succeeded, every execution so far failed and every
\* inference call so far failed, and the error text the last generation
\* prompt included.
DA_history0 ==
    [gen_entered |-> 0, gen_calls |-> 0, exec_calls |-> 0,
     exec_failures |-> 0, last_exec_error |-> None,
     gen_all_ok |-> TRUE, exec_all_failed |-> TRUE,
     llm_all_failed |-> TRUE, prompt_error |-> None]

DAUnused ==
    [node |-> "unused", steps |-> 0, ch |-> DA_initial_channels("-"),
     g |-> DA_history0, result |-> [kind |-> "none"]]

DAIdle == [DAUnused EXCEPT !.node = "idle"]

\* One step of the executor from node n to node m with the returned dict.
DA_step(n, m, returned, g) ==
    /\ da.node = n
    /\ da.steps < recursion_limit
    /\ da' = [da EXCEPT !.node = m, !.steps = da.steps + 1,
                        !.ch = channel_update(da.ch, returned), !.g = g]
    /\ UNCHANGED <<supVars, ra>>

\* BaseAgent.execute up to graph.invoke: _prepare_state builds the State.
DA_execute ==
    /\ da.node = "idle"
    /\ ra.node = "idle" /\ em.node = "idle" /\ cx.node = "idle"
    /\ da' = [da EXCEPT !.node = "parse_query",
                        !.ch = DA_initial_channels("show sales data")]
    /\ UNCHANGED <<supVars, ra>>

DA_parse_query ==
    \E out \in LLMOutcomes :
        DA_step("parse_query", "generate_sql",
                DA_parse_query_node(da.ch, out),
                [da.g EXCEPT !.gen_all_ok = da.g.gen_all_ok /\ out.ok,
                             !.llm_all_failed = ~out.ok])

DA_generate_sql ==
    \E out \in LLMOutcomes :
        /\ (~generate_sql_calls_llm(da.ch)) => out.ok
        /\ DA_step("generate_sql", "execute_query",
                DA_generate_sql_node(da.ch, out,
                                     <<"sql", da.g.gen_calls + 1>>),
                IF generate_sql_calls_llm(da.ch)
                THEN [da.g EXCEPT
                        !.gen_entered = da.g.gen_entered + 1,
                        !.gen_calls = da.g.gen_calls + 1,
                        !.gen_all_ok = da.g.gen_all_ok /\ out.ok,
                        !.llm_all_failed = da.g.llm_all_failed /\ ~out.ok,
                        !.prompt_error = error_context(da.ch)]
                ELSE [da.g EXCEPT !.gen_entered = da.g.gen_entered + 1])

\* execute_query_node and the conditional edge that follows it.
DA_execute_query ==
    \E out \in DBOutcomes :
        /\ (~execute_query_calls_db(da.ch)) => (out.ok /\ out.rows = "empty")
        /\ LET returned == DA_execute_query_node(da.ch, out)
               after == channel_update(da.ch, returned)
           IN DA_step("execute_query",
                      RouteTarget(route_after_execution(after)),
                      returned,
                      IF execute_query_calls_db(da.ch)
                      THEN [da.g EXCEPT
                              !.exec_calls = da.g.exec_calls + 1,
                              !.exec_failures = da.g.exec_failures
                                                  + (IF out.ok THEN 0 ELSE 1),
                              !.last_exec_error =
                                  IF out.ok THEN da.g.last_exec_error
                                  ELSE <<"Query execution failed: ", out.e>>,
                              !.exec_all_failed =
                                  da.g.exec_all_failed /\ ~out.ok]
                      ELSE da.g)

DA_analyze_results ==
    \E out \in LLMOutcomes :
        /\ (~analyze_results_calls_llm(da.ch)) => out.ok
        /\ DA_step("analyze_results", "create_visualizations",
                   DA_analyze_results_node(da.ch, out),
                   IF analyze_results_calls_llm(da.ch)
                   THEN [da.g EXCEPT !.llm_all_failed =
                                        da.g.llm_all_failed /\ ~out.ok]
                   ELSE da.g)

DA_create_visualizations ==
    DA_step("create_visualizations", "generate_response",
            DA_create_visualizations_node(da.ch), da.g)

DA_generate_response ==
    DA_step("generate_response", "END",
            DA_generate_response_node(da.ch), da.g)

\* The executor has run recursion_limit steps without reaching END:
\* graph.invoke raises GraphRecursionError.
DA_recursion_error ==
    /\ da.node \notin {"unused", "idle", "END", "recursion_error", "returned"}
    /\ da.steps >= recursion_limit
    /\ da' = [da EXCEPT !.node = "recursion_error"]
    /\ UNCHANGED <<supVars, ra>>

\* graph.invoke returned: _format_result builds the Result of execute.
DA_return ==
    /\ da.node = "END"
    /\ da' = [da EXCEPT !.node = "returned",
                        !.result = DA_format_result(da.ch)]
    /\ UNCHANGED <<supVars, ra>>

\* graph.invoke raised: the except clause of BaseAgent.execute builds the
\* Result.
DA_except ==
    /\ da.node = "recursion_error"
    /\ da' = [da EXCEPT !.node = "returned",
                        !.result = BaseAgent_error_result(
                                      "data_analyst", da.ch.user_query,
                                      "Recursion limit reached")]
    /\ UNCHANGED <<supVars, ra>>


\* -------------------------------------------------------------- RiskAgent
\* The channels of the risk-agent graph after graph.invoke wrote
\* initial_state: of the keys of _prepare_state only user_query and error
\* belong to RiskAgentState.
NoData == [kind |-> "absent", risk_score |-> Score(0, 1)]

RA_initial_channels(query) ==
    [user_query |-> query,
     delivery_data |-> NoData,
     inventory_data |-> NoData,
     quality_data |-> NoData,
     financial_data |-> NoData,
     risk_assessment |-> None,
     alert_recommendation |-> [kind |-> "absent", should_alert |-> FALSE],
     error |-> None]

\* Exact arithmetic on scores: the greatest common divisor, the fraction in
\* lowest terms, sum, product and >=.
RECURSIVE GCD(_, _)
GCD(a, b) == IF b = 0 THEN a ELSE GCD(b, a % b)

Ratio(num, den) ==
    LET g == GCD(num, den) IN Score(num \div g, den \div g)

RAdd(a, b) == Ratio(a.num * b.den + b.num * a.den, a.den * b.den)

RMul(a, b) == Ratio(a.num * b.num, a.den * b.den)

Ge(a, b) == a.num * b.den >= b.num * a.den

\* self.risk_weights
risk_weights(key) ==
    CASE key = "delivery" -> Score(4, 10)
      [] key = "inventory" -> Score(3, 10)
      [] key = "quality" -> Score(2, 10)
      [] key = "financial" -> Score(1, 10)

\* self.severity_thresholds
severity_thresholds(label) ==
    CASE label = "CRITICAL" -> Score(7, 10)
      [] label = "HIGH" -> Score(5, 10)
      [] label = "MEDIUM" -> Score(3, 10)
      [] label = "LOW" -> Score(0, 10)

\* Mutant: the lower bounds are exclusive.
classify_severity_exclusive(score) ==
    IF Gt(score, severity_thresholds("CRITICAL")) THEN "CRITICAL"
    ELSE IF Gt(score, severity_thresholds("HIGH")) THEN "HIGH"
    ELSE IF Gt(score, severity_thresholds("MEDIUM")) THEN "MEDIUM"
    ELSE "LOW"

\* RiskAgent._classify_severity
classify_severity(score) ==
    IF Ge(score, severity_thresholds("CRITICAL")) THEN "CRITICAL"
    ELSE IF Ge(score, severity_thresholds("HIGH")) THEN "HIGH"
    ELSE IF Ge(score, severity_thresholds("MEDIUM")) THEN "MEDIUM"
    ELSE "LOW"

\* sum(r.get(f, 0) for r in results)
RECURSIVE SumOf(_, _)
SumOf(rows, f) ==
    IF rows = <<>> THEN 0 ELSE Head(rows)[f] + SumOf(Tail(rows), f)

\* Results of the delivery query, one row per carrier: COUNT(*) and the
\* number of late shipments among them.
DeliveryResults ==
    {<<>>,
     <<[total_shipments |-> 5, late_shipments |-> 4]>>,
     <<[total_shipments |-> 2, late_shipments |-> 2],
       [total_shipments |-> 2, late_shipments |-> 0]>>}

\* Results of the inventory query, one row per (product_name,
\* stock_quantity, reorder_level) group: COUNT(*) and the number of items at
\* or below the reorder level among them.
InventoryResults ==
    {<<>>,
     <<[total_items |-> 5, critical_items |-> 1]>>,
     <<[total_items |-> 1, critical_items |-> 1],
       [total_items |-> 1, critical_items |-> 1]>>}

\* Results of the quality query, one row per (category, product_id) group
\* with a return: COUNT(*) and the number of returned orders among them.
QualityResults ==
    {<<>>,
     <<[total_orders |-> 2, returned_orders |-> 1]>>,
     <<[total_orders |-> 1, returned_orders |-> 1]>>}

\* Results of the financial query, one row per category: COUNT(*), the
\* orders with negative profit and the orders with a discount above 30%
\* among them (an order can be both).
FinancialResults ==
    {<<>>,
     <<[total_orders |-> 2, negative_profit_orders |-> 1,
        high_discount_orders |-> 1]>>,
     <<[total_orders |-> 2, negative_profit_orders |-> 2,
        high_discount_orders |-> 2]>>}

\* Outcomes of db.execute_query in a gather node: rows or an exception.
QueryOutcomes(Results) ==
    {[ok |-> TRUE, rows |-> r, e |-> "-"] : r \in Results}
    \cup {[ok |-> FALSE, rows |-> <<>>, e |-> "e1"]}

\* The dict a gather node stores: its risk_score, and whether it is the
\* dict of the except clause.
GatheredData(risk_score) == [kind |-> "data", risk_score |-> risk_score]

\* Mutant: the except clause of a gather node also sets State.error.
gather_failed_sets_error(st, field, e) ==
    [st EXCEPT ![field] = [kind |-> "error", risk_score |-> Score(0, 1)],
               !.error = <<"Data gathering failed: ", e>>]

\* The except clause of a gather node: {'risk_score': 0.0, 'error': str(e)};
\* State.error is not touched.
gather_failed(st, field, e) ==
    [st EXCEPT ![field] = [kind |-> "error", risk_score |-> Score(0, 1)]]

\* late_rate of gather_delivery_data_node
late_rate(rows) ==
    LET total == SumOf(rows, "total_shipments")
        late == SumOf(rows, "late_shipments")
    IN IF total > 0 THEN Ratio(late, total) ELSE Score(0, 1)

RA_gather_delivery_data_node(st, out) ==
    IF out.ok
    THEN [st EXCEPT !.delivery_data = GatheredData(late_rate(out.rows))]
    ELSE gather_failed(st, "delivery_data", out.e)

\* critical_pct of gather_inventory_data_node: total_items is read from the
\* first row, critical_items is summed over all rows.
critical_pct(rows) ==
    LET total_items == IF rows # <<>> THEN rows[1].total_items ELSE 0
        critical_items == SumOf(rows, "critical_items")
    IN IF total_items > 0 THEN Ratio(critical_items, total_items)
       ELSE Score(0, 1)

RA_gather_inventory_data_node(st, out) ==
    IF out.ok
    THEN [st EXCEPT !.inventory_data = GatheredData(critical_pct(out.rows))]
    ELSE gather_failed(st, "inventory_data", out.e)

\* return_rate of gather_quality_data_node
return_rate(rows) ==
    IF rows # <<>>
    THEN LET total_orders == SumOf(rows, "total_orders")
             returned_orders == SumOf(rows, "returned_orders")
         IN IF total_orders > 0 THEN Ratio(returned_orders, total_orders)
            ELSE Score(0, 1)
    ELSE Score(0, 1)

RA_gather_quality_data_node(st, out) ==
    IF out.ok
    THEN [st EXCEPT !.quality_data = GatheredData(return_rate(out.rows))]
    ELSE gather_failed(st, "quality_data", out.e)

\* risk_rate of gather_financial_data_node
risk_rate(rows) ==
    IF rows # <<>>
    THEN LET total_orders == SumOf(rows, "total_orders")
             negative_orders == SumOf(rows, "negative_profit_orders")
             high_discount == SumOf(rows, "high_discount_orders")
         IN IF total_orders > 0
            THEN Ratio(negative_orders + high_discount, total_orders)
            ELSE Score(0, 1)
    ELSE Score(0, 1)

RA_gather_financial_data_node(st, out) ==
    IF out.ok
    THEN [st EXCEPT !.financial_data = GatheredData(risk_rate(out.rows))]
    ELSE gather_failed(st, "financial_data", out.e)

\* state.get('<x>_data', {}).get('risk_score', 0.0)
risk_score_of(data) ==
    IF data.kind = "absent" THEN Score(0, 1) ELSE data.risk_score

\* Mutant: the weights of delivery and inventory are exchanged.
overall_score_swapped(st) ==
    RAdd(RAdd(RAdd(
        RMul(risk_score_of(st.delivery_data), risk_weights("inventory")),
        RMul(risk_score_of(st.inventory_data), risk_weights("delivery"))),
        RMul(risk_score_of(st.quality_data), risk_weights("quality"))),
        RMul(risk_score_of(st.financial_data), risk_weights("financial")))

\* overall_score of assess_risks_node: the weighted sum of the four
\* risk_score values.
overall_score(st) ==
    RAdd(RAdd(RAdd(
        RMul(risk_score_of(st.delivery_data), risk_weights("delivery")),
        RMul(risk_score_of(st.inventory_data), risk_weights("inventory"))),
        RMul(risk_score_of(st.quality_data), risk_weights("quality"))),
        RMul(risk_score_of(st.financial_data), risk_weights("financial")))

\* OverallRiskAssessment: the overall_score and overall_severity fields of
\* the structured output of the assessment call.
OverallRiskAssessment(score, severity) == <<score, severity>>

\* Outcomes of llm_risk_assessor.invoke: an OverallRiskAssessment whose two
\* overall fields are the model's own, or an exception.
AssessOutcomes ==
    {[ok |-> TRUE, e |-> "-", assessment |-> OverallRiskAssessment(s[1], s[2])] :
        s \in {<<Score(0, 1), "LOW">>, <<Score(1, 1), "CRITICAL">>}}
    \cup {[ok |-> FALSE, e |-> "e1", assessment |-> None]}

\* Mutant: the assessment is stored as the call returned it.
RA_assess_risks_node_keep(st, out) ==
    IF out.ok
    THEN [st EXCEPT !.risk_assessment = out.assessment]
    ELSE [st EXCEPT !.error = <<"Risk assessment failed: ", out.e>>]

\* assess_risks_node: the two overall fields of the returned assessment are
\* overwritten with the calculated values before it is stored.
RA_assess_risks_node(st, out) ==
    IF out.ok
    THEN LET calculated == overall_score(st)
             assessment == [out.assessment EXCEPT
                              ![1] = calculated,
                              ![2] = classify_severity(calculated)]
         IN [st EXCEPT !.risk_assessment = assessment]
    ELSE [st EXCEPT !.error = <<"Risk assessment failed: ", out.e>>]

\* generate_alerts_node reaches self.llm_alerter.invoke.
generate_alerts_calls_llm(st) == st.risk_assessment # None

\* should_alert: the flag of the AlertRecommendation a successful call
\* returns.
RA_generate_alerts_node(st, out, should_alert) ==
    IF st.risk_assessment = None
    THEN [st EXCEPT !.alert_recommendation =
            [kind |-> "No risk assessment available", should_alert |-> FALSE]]
    ELSE IF out.ok
    THEN [st EXCEPT !.alert_recommendation =
            [kind |-> "alert", should_alert |-> should_alert]]
    ELSE [st EXCEPT !.alert_recommendation =
            [kind |-> "Alert generation failed", should_alert |-> FALSE]]

\* RiskAgent._format_result: success is `not bool(state.get('error'))`; the
\* constructor call passes no error.
RA_format_result(st) ==
    [agent_name |-> "risk_agent",
     query |-> st.user_query,
     success |-> (st.error = None),
     error |-> AgentResult_error_default,
     insights |->
        (IF st.risk_assessment # None
         THEN <<<<"Overall Risk Assessment: ", st.risk_assessment[2]>>>>
         ELSE <<>>),
     recommendations |->
        (IF st.risk_assessment # None THEN <<<<"recommended action">>>>
         ELSE <<>>)
        \o (IF st.alert_recommendation.should_alert
            THEN <<<<"**ALERT**: ", "message">>>> ELSE <<>>),
     metrics |-> [overall_risk_score |->
                     IF st.risk_assessment # None THEN st.risk_assessment[1]
                     ELSE Score(0, 1),
                  overall_severity |->
                     IF st.risk_assessment # None THEN st.risk_assessment[2]
                     ELSE "UNKNOWN",
                  delivery_risk |-> risk_score_of(st.delivery_data),
                  inventory_risk |-> risk_score_of(st.inventory_data),
                  quality_risk |-> risk_score_of(st.quality_data),
                  financial_risk |-> risk_score_of(st.financial_data),
                  should_alert |-> st.alert_recommendation.should_alert]]

\* The risk-agent run: the node about to run, the channels, the Result of
\* execute, and history: the inference and storage calls made and whether
\* every one of them failed.
RAUnused ==
    [node |-> "unused", ch |-> RA_initial_channels("-"),
     ncalls |-> 0, all_failed |-> TRUE, result |-> [kind |-> "none"]]

RAIdle == [RAUnused EXCEPT !.node = "idle"]

\* One step of the executor from node n to node m; the node made a
\* collaborator call with outcome out.
RA_step(n, m, returned, out) ==
    /\ ra.node = n
    /\ ra' = [ra EXCEPT !.node = m, !.ch = returned,
                        !.ncalls = ra.ncalls + 1,
                        !.all_failed = ra.all_failed /\ ~out.ok]
    /\ UNCHANGED <<supVars, da>>

\* BaseAgent.execute up to graph.invoke: _prepare_state builds the State.
RA_execute ==
    /\ ra.node = "idle"
    /\ da.node = "idle" /\ em.node = "idle" /\ cx.node = "idle"
    /\ ra' = [ra EXCEPT !.node = "gather_delivery_data",
                        !.ch = RA_initial_channels("show sales data")]
    /\ UNCHANGED <<supVars, da>>

RA_gather_delivery_data ==
    \E out \in QueryOutcomes(DeliveryResults) :
        RA_step("gather_delivery_data", "gather_inventory_data",
                RA_gather_delivery_data_node(ra.ch, out), out)

RA_gather_inventory_data ==
    \E out \in QueryOutcomes(InventoryResults) :
        RA_step("gather_inventory_data", "gather_quality_data",
                RA_gather_inventory_data_node(ra.ch, out), out)

RA_gather_quality_data ==
    \E out \in QueryOutcomes(QualityResults) :
        RA_step("gather_quality_data", "gather_financial_data",
                RA_gather_quality_data_node(ra.ch, out), out)

RA_gather_financial_data ==
    \E out \in QueryOutcomes(FinancialResults) :
        RA_step("gather_financial_data", "assess_risks",
                RA_gather_financial_data_node(ra.ch, out), out)

RA_assess_risks ==
    \E out \in AssessOutcomes :
        RA_step("assess_risks", "generate_alerts",
                RA_assess_risks_node(ra.ch, out), out)

RA_generate_alerts ==
    /\ ra.node = "generate_alerts"
    /\ IF generate_alerts_calls_llm(ra.ch)
       THEN \E out \in LLMOutcomes, should_alert \in BOOLEAN :
              /\ (~out.ok) => ~should_alert
              /\ RA_step("generate_alerts", "END",
                         RA_generate_alerts_node(ra.ch, out, should_alert),
                         out)
       ELSE /\ ra' = [ra EXCEPT
                        !.node = "END",
                        !.ch = RA_generate_alerts_node(
                                   ra.ch, [ok |-> TRUE, e |-> "-"], FALSE)]
            /\ UNCHANGED <<supVars, da>>

\* graph.invoke returned: _format_result builds the Result of execute.
RA_return ==
    /\ ra.node = "END"
    /\ ra' = [ra EXCEPT !.node = "returned",
                        !.result = RA_format_result(ra.ch)]
    /\ UNCHANGED <<supVars, da>>


\* ------------------------------------------------------------- EmailAgent
\* Queries handed to the email agent.
EmailQueries == {"send alert", "assign task", "meeting agenda", "hello"}

\* `word in query_lower` for the words of classify_workflow_node.
WorkflowWords(query) ==
    CASE query = "send alert" -> {"alert"}
      [] query = "assign task" -> {"assign", "task"}
      [] query = "meeting agenda" -> {"agenda", "meeting"}
      [] query = "hello" -> {}

\* The channels of the email-agent graph after graph.invoke wrote
\* initial_state.
EM_initial_channels(query) ==
    [user_query |-> query, workflow_type |-> "absent",
     stakeholders |-> "absent", error |-> None]

EM_classify_workflow_node(st) ==
    [st EXCEPT !.workflow_type =
        IF WorkflowWords(st.user_query) \cap {"alert", "notify", "warn"} # {}
        THEN "alert"
        ELSE IF WorkflowWords(st.user_query)
                  \cap {"task", "assign", "create task"} # {}
        THEN "task"
        ELSE IF WorkflowWords(st.user_query) \cap {"meeting", "agenda"} # {}
        THEN "meeting_agenda"
        ELSE "email"]

EM_load_stakeholders_node(st) ==
    [st EXCEPT !.stakeholders = "DEFAULT_STAKEHOLDERS"]

\* Mutant: the workflow type itself is returned as the key.
route_workflow_type(st) == st.workflow_type

\* EmailAgent._route_workflow
route_workflow(st) ==
    IF st.workflow_type = "alert" THEN "alert"
    ELSE IF st.workflow_type = "task" THEN "task"
    ELSE IF st.workflow_type = "meeting_agenda" THEN "meeting"
    ELSE "email"

\* The key-to-target table of the conditional edge after load_stakeholders.
WorkflowTable ==
    [alert |-> "generate_alerts", task |-> "create_tasks",
     email |-> "draft_emails", meeting |-> "draft_emails"]

\* The nodes _build_graph adds to the email-agent graph.
EM_nodes ==
    {"classify_workflow", "load_stakeholders", "generate_alerts",
     "create_tasks", "draft_emails"}

\* The email-agent run: the node about to run, the channels, and the key
\* the router returned. The run is followed up to the node the conditional
\* edge selects.
EMUnused ==
    [node |-> "unused", ch |-> EM_initial_channels("hello"), key |-> "-"]

EMIdle == [EMUnused EXCEPT !.node = "idle"]

\* BaseAgent.execute up to graph.invoke.
EM_execute ==
    /\ em.node = "idle"
    /\ da.node = "idle" /\ ra.node = "idle" /\ cx.node = "idle"
    /\ \E q \in EmailQueries :
          em' = [em EXCEPT !.node = "classify_workflow",
                           !.ch = EM_initial_channels(q)]
    /\ UNCHANGED <<pc, state, stages, ex_pc, tasks, k, results,
                   accumulated_context, calls, exec_log, selection, da, ra,
                   fb, fn, cx>>

EM_classify_workflow ==
    /\ em.node = "classify_workflow"
    /\ em' = [em EXCEPT !.node = "load_stakeholders",
                        !.ch = EM_classify_workflow_node(em.ch)]
    /\ UNCHANGED <<pc, state, stages, ex_pc, tasks, k, results,
                   accumulated_context, calls, exec_log, selection, da, ra,
                   fb, fn, cx>>

\* load_stakeholders_node and the conditional edge that follows it; a key
\* that is not in the table selects no node.
EM_load_stakeholders ==
    /\ em.node = "load_stakeholders"
    /\ LET after == EM_load_stakeholders_node(em.ch)
           key == route_workflow(after)
       IN em' = [em EXCEPT !.ch = after, !.key = key,
                           !.node = IF key \in DOMAIN WorkflowTable
                                    THEN WorkflowTable[key]
                                    ELSE "no target"]
    /\ UNCHANGED <<pc, state, stages, ex_pc, tasks, k, results,
                   accumulated_context, calls, exec_log, selection, da, ra,
                   fb, fn, cx>>

\* ------------------------------------------------- the caller's context
\* The most execute calls one caller makes.
MaxCalls == 2

\* The keys of the dict the caller holds before its first call.
CallerContext0 == {"region"}

\* The context arguments of execute: None, an empty dict, or the dict the
\* caller holds.
ContextArgs == {"None", "empty", "dict"}

\* "context": context or {} of initial_state: the object that becomes
\* State.context (the caller's dict itself when it is non-empty, else a new
\* dict) and its keys.
Sup_initial_context(arg, caller) ==
    IF arg = "dict" /\ caller # {}
    THEN [obj |-> "caller", keys |-> caller]
    ELSE [obj |-> "fresh", keys |-> {}]

\* The keys parse_query_node writes into state['context'].
parse_query_writes == {"timestamp", "available_agents"}

\* The calls of SupervisorAgent.execute by one caller: the node about to
\* run, the number of calls, the argument of the current call, the keys of
\* the caller's dict, State.context (object and keys), State.error and
\* State.result of the current call.
CXUnused ==
    [node |-> "unused", ncalls |-> 0, arg |-> "None",
     caller |-> CallerContext0,
     context |-> [obj |-> "fresh", keys |-> {}],
     error |-> None, result |-> None]

CXIdle == [CXUnused EXCEPT !.node = "idle"]

\* SupervisorAgent.execute up to graph.invoke: the initial State is built.
Cx_execute ==
    /\ cx.node \in {"idle", "returned"}
    /\ cx.ncalls < MaxCalls
    /\ da.node = "idle" /\ ra.node = "idle" /\ em.node = "idle"
    /\ \E arg \in ContextArgs :
          cx' = [cx EXCEPT !.node = "parse_query",
                           !.ncalls = cx.ncalls + 1,
                           !.arg = arg,
                           !.context = Sup_initial_context(arg, cx.caller),
                           !.error = None, !.result = None]
    /\ UNCHANGED <<pc, state, stages, ex_pc, tasks, k, results,
                   accumulated_context, calls, exec_log, selection, da, ra,
                   fb, fn, em>>

\* parse_query_node: the two writes go into the dict object that is
\* State.context, which is the caller's dict when that one was passed.
Cx_parse_query_node ==
    /\ cx.node = "parse_query"
    /\ cx' = [cx EXCEPT
                !.node = "plan_task",
                !.context.keys = cx.context.keys \cup parse_query_writes,
                !.caller = IF cx.context.obj = "caller"
                           THEN cx.context.keys \cup parse_query_writes
                           ELSE cx.caller]
    /\ UNCHANGED <<pc, state, stages, ex_pc, tasks, k, results,
                   accumulated_context, calls, exec_log, selection, da, ra,
                   fb, fn, em>>

\* graph.invoke returns the final State: the nodes from plan_task on are
\* those of the supervisor run and are not followed here.
Cx_return ==
    /\ cx.node = "plan_task"
    /\ cx' = [cx EXCEPT !.node = "returned"]
    /\ UNCHANGED <<pc, state, stages, ex_pc, tasks, k, results,
                   accumulated_context, calls, exec_log, selection, da, ra,
                   fb, fn, em>>


\* ---------------------------------------------------------- AgentRegistry
\* Queries handed to find_best_agent.
FBQueries ==
    {"show sales data", "hello", "show data",
     "show sales data risk alert delivery", "late delivery risk",
     "order stock", "calculate risk", "Show Orders"}

\* AgentRegistry.register: self.agents[agent.name] = agent; a name that is
\* already registered keeps its place in the dict.
AgentRegistry_register(agents, name) ==
    IF \E i \in DOMAIN agents : agents[i] = name THEN agents
    ELSE Append(agents, name)

\* The Registry (the names in registration order) and history: whether
\* find_best_agent has been called, the query and the Registry of the last
\* call, what it returned, whether the call before it had the same query on
\* the same Registry, and what that one returned.
FBRegistry(agents) ==
    [registry |-> agents, called |-> FALSE, query |-> "-",
     at_call |-> <<>>, result |-> None, repeated |-> FALSE, prev |-> None]

FB_register ==
    /\ \E name \in list_agents :
          fb' = [fb EXCEPT !.registry = AgentRegistry_register(fb.registry, name)]
    /\ UNCHANGED <<pc, state, stages, ex_pc, tasks, k, results,
                   accumulated_context, calls, exec_log, selection, da, ra, fn,
                   em, cx>>

FB_find_best_agent ==
    /\ \E q \in FBQueries :
          fb' = [fb EXCEPT
                   !.called = TRUE, !.query = q, !.at_call = fb.registry,
                   !.result = AgentRegistry_find_best_agent(fb.registry, q),
                   !.repeated = /\ fb.called
                                /\ fb.query = q
                                /\ fb.at_call = fb.registry,
                   !.prev = fb.result]
    /\ UNCHANGED <<pc, state, stages, ex_pc, tasks, k, results,
                   accumulated_context, calls, exec_log, selection, da, ra, fn,
                   em, cx>>

\* ------------------------------------------------------------ can_handle
\* The longest capability list of the default-policy worker.
MaxCaps == 3

\* Capability strings a worker can declare, lower-cased and split into words.
CapabilityPool == {<<"stock">>, <<"stock", "lookup">>, <<"order", "tracking">>}

\* Queries handed to can_handle.
CHQueries ==
    FBQueries \cup {"show data query sql analyze calculate trend compare"}

\* Workers whose can_handle is called: the two keyword-weighted overrides
\* and a worker that keeps BaseAgent.can_handle.
CHWorkers == {"data_analyst", "risk_agent", "default_worker"}

\* Scores handed to _classify_severity: around every threshold, the ends of
\* [0, 1] and one above 1.
SeverityScores ==
    {Score(n, 100) : n \in {0, 29, 30, 31, 48, 49, 50, 51, 69, 70, 71, 100,
                            140}}

\* A worker that keeps BaseAgent.can_handle with its capability list, and
\* history: the last call (op), its worker, query and score, the capability
\* add_capability appended and the score of the same query before it, the
\* label of the last _classify_severity call, and the score and label of
\* the _classify_severity call before it.
FnIdle ==
    [capabilities |-> <<>>, op |-> "none", worker |-> "-", query |-> "-",
     score |-> Score(0, 1), added |-> <<>>, before |-> Score(0, 1),
     label |-> "-", prev_score |-> Score(0, 1), prev_label |-> "-"]

\* worker.can_handle(query)
Fn_can_handle ==
    /\ \E w \in CHWorkers, q \in CHQueries :
          fn' = [fn EXCEPT
                   !.op = "can_handle", !.worker = w, !.query = q,
                   !.score = IF w = "default_worker"
                             THEN default_can_handle(fn.capabilities, q)
                             ELSE can_handle(w, q),
                   !.added = <<>>, !.before = Score(0, 1),
                   !.label = "-", !.prev_score = Score(0, 1),
                   !.prev_label = "-"]
    /\ UNCHANGED <<pc, state, stages, ex_pc, tasks, k, results,
                   accumulated_context, calls, exec_log, selection, da, ra,
                   fb, em, cx>>

\* The worker declares one more capability; can_handle(query) is called
\* before and after.
Fn_add_capability ==
    /\ Len(fn.capabilities) < MaxCaps
    /\ \E c \in CapabilityPool, q \in CHQueries :
          fn' = [fn EXCEPT
                   !.capabilities = Append(fn.capabilities, c),
                   !.op = "add_capability", !.worker = "default_worker",
                   !.query = q, !.added = c,
                   !.before = default_can_handle(fn.capabilities, q),
                   !.score = default_can_handle(
                                 Append(fn.capabilities, c), q),
                   !.label = "-", !.prev_score = Score(0, 1),
                   !.prev_label = "-"]
    /\ UNCHANGED <<pc, state, stages, ex_pc, tasks, k, results,
                   accumulated_context, calls, exec_log, selection, da, ra,
                   fb, em, cx>>

\* self._classify_severity(score)
Fn_classify_severity ==
    /\ \E score \in SeverityScores :
          fn' = [fn EXCEPT
                   !.op = "classify_severity", !.worker = "risk_agent",
                   !.query = "-", !.added = <<>>, !.before = Score(0, 1),
                   !.score = score, !.label = classify_severity(score),
                   !.prev_score = IF fn.op = "classify_severity"
                                  THEN fn.score ELSE Score(0, 1),
                   !.prev_label = fn.label]
    /\ UNCHANGED <<pc, state, stages, ex_pc, tasks, k, results,
                   accumulated_context, calls, exec_log, selection, da, ra,
                   fb, em, cx>>


SupIdle ==
    /\ pc = "idle"
    /\ state = Sup_initial_state("hello")
    /\ stages = <<>>
    /\ ex_pc = "none"
    /\ tasks = <<>>
    /\ k = 0
    /\ results = <<>>
    /\ accumulated_context = <<>>
    /\ calls = <<>>
    /\ exec_log = <<>>
    /\ selection = NoSelection

Init ==
    SupIdle /\ da = DAUnused /\ ra = RAUnused /\ fb = FBRegistry(Registered)
    /\ fn = FnIdle /\ em = EMUnused /\ cx = CXUnused

Next ==
    \/ Sup_execute
    \/ Sup_parse_query_node
    \/ Sup_plan_task_node
    \/ Sup_select_agents_node
    \/ Sup_execute_agents_none
    \/ Par_create_tasks
    \/ Par_await_task
    \/ Par_resume
    \/ Par_return
    \/ Seq_enter
    \/ Seq_call
    \/ Seq_resume
    \/ Seq_return
    \/ \E i \in DOMAIN calls : BaseAgent_graph_invoke(i)
    \/ \E i \in DOMAIN calls : BaseAgent_format_result(i)
    \/ \E i \in DOMAIN calls : Overriding_execute(i)
    \/ Sup_aggregate_results_node
    \/ Sup_generate_report_node

Spec == Init /\ [][Next]_vars

InitDA ==
    SupIdle /\ da = DAIdle /\ ra = RAIdle /\ fb = FBRegistry(Registered)
    /\ fn = FnIdle /\ em = EMIdle /\ cx = CXIdle

NextDA ==
    \/ DA_execute
    \/ DA_parse_query
    \/ DA_generate_sql
    \/ DA_execute_query
    \/ DA_analyze_results
    \/ DA_create_visualizations
    \/ DA_generate_response
    \/ DA_recursion_error
    \/ DA_return
    \/ DA_except
    \/ RA_execute
    \/ RA_gather_delivery_data
    \/ RA_gather_inventory_data
    \/ RA_gather_quality_data
    \/ RA_gather_financial_data
    \/ RA_assess_risks
    \/ RA_generate_alerts
    \/ RA_return
    \/ EM_execute
    \/ EM_classify_workflow
    \/ EM_load_stakeholders
    \/ Cx_execute
    \/ Cx_parse_query_node
    \/ Cx_return

SpecDA == InitDA /\ [][NextDA]_vars

InitFB ==
    SupIdle /\ da = DAUnused /\ ra = RAUnused /\ fb = FBRegistry(<<>>)
    /\ fn = FnIdle /\ em = EMUnused /\ cx = CXUnused

NextFB ==
    \/ FB_register
    \/ FB_find_best_agent

SpecFB == InitFB /\ [][NextFB]_vars

InitFn ==
    SupIdle /\ da = DAUnused /\ ra = RAUnused /\ fb = FBRegistry(Registered)
    /\ fn = FnIdle /\ em = EMUnused /\ cx = CXUnused

NextFn ==
    \/ Fn_can_handle
    \/ Fn_add_capability
    \/ Fn_classify_severity

SpecFn == InitFn /\ [][NextFn]_vars

\* ================================================================ claims
\* The supervisor node has returned from execute_agents_node.
AfterExecute == pc \in {"aggregate_results", "generate_report", "END"}

\* The call ended in a failure: it raised, or returned success=false.
Failed(call) ==
    \/ call.status = "raised"
    \/ (call.status = "returned" /\ ~call.out.success)

\* The entry r that the code must hold for a finished call: the Result it
\* returned, or a failed Result with the call's name and exception message.
Records(r, call) ==
    /\ r.agent_name = call.name
    /\ call.status = "returned" => r = call.out
    /\ call.status = "raised" => (~r.success /\ r.error = <<call.exc>>)
    /\ Failed(call) => ~r.success

\* Task i is the last task with its name among the first n tasks.
LastOf(i, n) == \A j \in (i + 1)..n : tasks[j] # tasks[i]

\* The six nodes of the supervisor graph in edge order.
AllStages == <<"parse_query", "plan_task", "select_agents", "execute_agents",
               "aggregate_results", "generate_report">>

\* C1: BaseAgent.execute always ends by returning an AgentResult and never
\* by raising; when graph.invoke or _format_result raised, the returned
\* Result has success=false and carries the message of that exception.
C1_ExecuteNeverRaises ==
    \A i \in DOMAIN calls :
        calls[i].name \notin Overriding =>
            /\ calls[i].status # "raised"
            /\ calls[i].status = "returned" =>
                  /\ calls[i].out.agent_name = calls[i].name
                  /\ calls[i].out.success \in BOOLEAN
            /\ calls[i].caught # None =>
                  /\ calls[i].status = "returned"
                  /\ ~calls[i].out.success
                  /\ calls[i].out.error = calls[i].caught

\* Two BaseAgent.execute calls of one run have returned, one after
\* graph.invoke raised and one after _format_result raised.
C1_Witness ==
    \E i, j \in DOMAIN calls :
        /\ calls[i].status = "returned" /\ calls[i].caught = <<"node raised">>
        /\ calls[j].status = "returned"
        /\ calls[j].caught = <<"format raised">>

\* C2: in both modes a call that failed (failed Result or exception) is
\* recorded as a Result with success=false under its own name and changes
\* no other entry; every selected worker is executed and recorded whatever
\* the others did, and aggregate_results and generate_report still run.
C2_FailureIsolated ==
    /\ ex_pc \in {"par_loop", "seq_loop"} =>
          /\ DictKeys(results) = {tasks[j] : j \in 1..(k - 1)}
          /\ \A j \in 1..(k - 1) :
                /\ Finished(calls[j])
                /\ LastOf(j, k - 1) =>
                      Records(DictGet(results, tasks[j]), calls[j])
    /\ (AfterExecute /\ state.selected_agents # <<>>) =>
          /\ tasks = state.selected_agents
          /\ \A i \in DOMAIN tasks :
                /\ Finished(calls[i])
                /\ tasks[i] \in DictKeys(state.agent_results)
    /\ pc = "END" => stages = AllStages
    /\ pc \notin {"idle", "END"} => ENABLED Next

\* A sequential run has ended in which the first worker raised, the second
\* returned a failed Result and the third succeeded, each recorded.
C2_Witness ==
    /\ pc = "END"
    /\ execution_order(state) = "sequential"
    /\ Len(calls) = 3
    /\ calls[1].status = "raised"
    /\ calls[2].status = "returned" /\ ~calls[2].out.success
    /\ calls[3].status = "returned" /\ calls[3].out.success
    /\ ~DictGet(state.agent_results, tasks[1]).success
    /\ DictGet(state.agent_results, tasks[3]).success

\* C3: SupervisorAgent.execute always runs to the end and returns a final
\* state with a non-null final_report, whatever the planning inference call
\* and the workers did.
C3_AlwaysReport ==
    /\ pc = "END" => state.final_report.kind # "None"
    /\ pc = "END" =>
          DOMAIN state = {"user_query", "context", "task_plan",
                          "selected_agents", "agent_results", "final_report",
                          "executive_summary", "error"}
    /\ pc \notin {"idle", "END"} => ENABLED Next

\* A run has ended in which planning failed, a worker failed and the
\* summarizing call failed, and the final state carries a report.
C3_Witness ==
    /\ pc = "END"
    /\ state.task_plan = None
    /\ \E i \in DOMAIN calls : Failed(calls[i])
    /\ state.final_report.kind = "error"

\* C6: in parallel mode, whenever the supervisor waits for a task, the
\* execute call of every selected worker has been started.
C6_AllStartedBeforeWait ==
    ex_pc = "par_wait" => \A i \in DOMAIN calls : calls[i].status # "created"

\* C7: in parallel mode aggregate_results starts only after the execute
\* call of every selected worker has finished, and agent_results holds an
\* entry for every one of them.
C7_Barrier ==
    (AfterExecute /\ execution_order(state) = "parallel"
       /\ state.selected_agents # <<>>) =>
        /\ Len(calls) = Len(state.selected_agents)
        /\ \A i \in DOMAIN calls :
              /\ calls[i].name = state.selected_agents[i]
              /\ Finished(calls[i])
        /\ DictKeys(state.agent_results)
              = {state.selected_agents[i] : i \in DOMAIN state.selected_agents}

\* A parallel fan-out of three workers has reached aggregate_results.
C7_Witness ==
    /\ pc = "aggregate_results"
    /\ execution_order(state) = "parallel"
    /\ Len(calls) = 3
    /\ \E i \in DOMAIN calls : calls[i].status = "raised"

\* C8: after a parallel fan-in agent_results has exactly one entry per
\* selected worker, under that worker's own name, holding the Result of that
\* worker's call (a failed Result when the call raised).
C8_KeyedByName ==
    (AfterExecute /\ execution_order(state) = "parallel"
       /\ state.selected_agents # <<>>) =>
        /\ DictKeys(state.agent_results) = {tasks[i] : i \in DOMAIN tasks}
        /\ Len(state.agent_results)
              = Cardinality({tasks[i] : i \in DOMAIN tasks})
        /\ \A i \in DOMAIN tasks :
              LastOf(i, Len(tasks)) =>
                  Records(DictGet(state.agent_results, tasks[i]), calls[i])

\* Three distinct workers ran in parallel mode: one raised, two succeeded,
\* and agent_results holds 2 successful and 1 failed Result.
C8_Witness ==
    /\ AfterExecute
    /\ execution_order(state) = "parallel"
    /\ tasks = <<"stub_agent", "risk_agent", "data_analyst">>
    /\ calls[1].status = "raised"
    /\ Len(SuccessfulResults(state.agent_results)) = 2
    /\ Len(state.agent_results) = 3
    /\ ~DictGet(state.agent_results, "stub_agent").success

\* C9: in parallel mode the States of two workers of one fan-out hold
\* different context objects.
C9_NoSharedContext ==
    (ex_pc \in {"par_loop", "par_wait"}) =>
        \A i, j \in DOMAIN calls :
            (i # j /\ calls[i].ctx # <<>> /\ calls[j].ctx # <<>>) =>
                calls[i].ctx # calls[j].ctx

\* C10 (amended): in sequential mode the execute calls are made one at a
\* time, the sequence of calls made so far is a prefix of selected_agents,
\* and when the loop is over it is selected_agents: one call per occurrence
\* of a name, whatever the earlier calls did.
C10_SelectionOrder ==
    (execution_order(state) = "sequential" /\ state.selected_agents # <<>>
       /\ (ex_pc \in {"seq_loop", "seq_wait"} \/ AfterExecute)) =>
        /\ Len(exec_log) <= Len(state.selected_agents)
        /\ exec_log = SubSeq(state.selected_agents, 1, Len(exec_log))
        /\ Cardinality({i \in DOMAIN calls : Running(calls[i])}) <= 1
        /\ \A i \in DOMAIN calls :
              Running(calls[i]) => \A j \in 1..(i - 1) : Finished(calls[j])
        /\ AfterExecute => exec_log = state.selected_agents

\* A sequential run of three calls is over and its first call raised.
C10_Witness ==
    /\ pc = "aggregate_results"
    /\ execution_order(state) = "sequential"
    /\ Len(exec_log) = 3
    /\ calls[1].status = "raised"
    /\ Finished(calls[3])

\* C10 as stated: in sequential mode every selected worker is executed
\* exactly once.
C10_ExactlyOnce ==
    (AfterExecute /\ execution_order(state) = "sequential") =>
        \A n \in {state.selected_agents[i] : i \in DOMAIN state.selected_agents} :
            Cardinality({i \in DOMAIN exec_log : exec_log[i] = n}) = 1

\* C4: a data-analyst run started at parse_query reaches the terminal node
\* whatever the inference and storage calls do: the executor never has to
\* give up on a run that is still cycling through generate_sql and
\* execute_query.
C4_ReachesTerminal == da.node # "recursion_error"

\* C5: with max_retries = 2, a run in which every generation succeeded and
\* every execution failed ends at the terminal node after exactly 3
\* executions of the query, with State.error the error of the last one.
C5_ThreeAttempts ==
    (da.node = "END" /\ da.g.gen_all_ok /\ da.g.exec_all_failed
       /\ da.g.exec_calls > 0) =>
        /\ da.g.exec_calls = max_retries + 1
        /\ da.ch.error = da.g.last_exec_error

\* Call i of a sequential run has been made.
SeqCalled(i) ==
    /\ execution_order(state) = "sequential"
    /\ ex_pc \in {"seq_loop", "seq_wait"} \/ AfterExecute
    /\ i \in DOMAIN calls
    /\ calls[i].status # "not_called"

C12_AllFailNonEmptyError ==
    /\ (da.node = "returned" /\ da.g.llm_all_failed /\ da.g.exec_all_failed) =>
          (~da.result.success /\ da.result.error # None)
    /\ (ra.node = "returned" /\ ra.all_failed) =>
          (~ra.result.success /\ ra.result.error # None)

\* The select stage of the run is over.
Selected ==
    pc \in {"execute_agents", "aggregate_results", "generate_report", "END"}

\* The positions of the routing outcome that hold a registered name.
RegisteredIn(agents) == {i \in DOMAIN agents : agents[i] \in list_agents}

\* The registered workers whose confidence for query q exceeds 0.3.
Confident(q) ==
    {n \in list_agents : Gt(can_handle(n, q), ConfidenceThreshold)}

\* C13: after the select stage every name of selected_agents is registered;
\* when the routing outcome names a registered worker, selected_agents is
\* that outcome with the unregistered names dropped and the order of the
\* others kept.
C13_OnlyRegistered ==
    Selected =>
        /\ \A i \in DOMAIN state.selected_agents :
              state.selected_agents[i] \in list_agents
        /\ (selection.ok /\ RegisteredIn(selection.agents) # {}) =>
              \E f \in [DOMAIN state.selected_agents
                          -> DOMAIN selection.agents] :
                  /\ \A i, j \in DOMAIN f : i < j => f[i] < f[j]
                  /\ \A i \in DOMAIN f :
                        state.selected_agents[i] = selection.agents[f[i]]
                  /\ {f[i] : i \in DOMAIN f} = RegisteredIn(selection.agents)

\* The routing call named a registered, an unregistered and another
\* registered worker, and the two registered ones were kept in their order.
C13_Witness ==
    /\ Selected
    /\ selection.agents = <<"risk_agent", "ghost_agent", "data_analyst">>
    /\ state.selected_agents = <<"risk_agent", "data_analyst">>

\* C14: when the routing outcome names no registered worker,
\* selected_agents is the single best-scoring registered worker if some
\* worker's confidence for the query exceeds 0.3 and the empty list
\* otherwise, and the select stage records no error.
C14_Fallback ==
    (Selected /\ selection.ok /\ RegisteredIn(selection.agents) = {}) =>
        LET q == state.user_query
            sel == state.selected_agents
        IN /\ Confident(q) = {} => sel = <<>>
           /\ Confident(q) # {} =>
                 /\ Len(sel) = 1
                 /\ sel[1] \in Confident(q)
                 /\ \A n \in list_agents :
                       Le(can_handle(n, q), can_handle(sel[1], q))
                 /\ sel = find_best_agent(q)
           /\ pc # "END" =>
                 state.error = (IF state.task_plan = None
                                THEN <<"Planning failed: ", "e1">> ELSE None)

\* The routing call named only an unregistered worker and the best match
\* for the query, data_analyst, was selected in its place.
C14_Witness ==
    /\ Selected
    /\ selection.ok
    /\ selection.agents = <<"ghost_agent">>
    /\ state.user_query = "show sales data"
    /\ state.selected_agents = <<"data_analyst">>
    /\ state.task_plan # None /\ state.error = None

\* C15: when the planning inference call fails, plan_task leaves task_plan
\* null and records the failure in State.error, and the run still goes
\* through select, execute, aggregate and report and ends with a report.
C15_PlanFailureDegrades ==
    /\ pc = "select_agents" =>
          IF state.task_plan = None
          THEN state.error = <<"Planning failed: ", "e1">>
          ELSE state.error = None
    /\ (pc = "END" /\ state.task_plan = None) =>
          /\ stages = AllStages
          /\ state.final_report.kind # "None"
    /\ (state.task_plan = None /\ pc \notin {"idle", "END"}) => ENABLED Next

\* Planning failed, two workers were executed and the run ended with a
\* summarized report.
C15_Witness ==
    /\ pc = "END"
    /\ state.task_plan = None
    /\ Len(calls) = 2
    /\ state.final_report.kind = "report"

\* C16: when no worker of the run succeeded, the final report is the one
\* stating that no results are available.
C16_NoResultsWhenNoneSucceeded ==
    (pc = "END" /\ SelectSeq(state.agent_results,
                             LAMBDA kv : kv[2].success) = <<>>) =>
        state.final_report.kind = "no_results"

\* C17: when the routing outcome names no registered worker and no worker's
\* confidence exceeds 0.3, no worker is executed, execute and aggregate
\* leave agent_results empty, and the run ends with the report 'No results
\* available to generate report.'.
C17_EmptySelection ==
    (Selected /\ selection.ok /\ RegisteredIn(selection.agents) = {}
       /\ Confident(state.user_query) = {}) =>
        /\ state.selected_agents = <<>>
        /\ calls = <<>> /\ exec_log = <<>>
        /\ state.agent_results = <<>>
        /\ state.context.aggregated.kind = "absent"
        /\ pc \in {"aggregate_results", "generate_report"} =>
              state.final_report.kind = "None"
        /\ pc = "END" =>
              /\ stages = AllStages
              /\ state.final_report = [kind |-> "no_results"]
        /\ pc # "END" => ENABLED Next

\* A run for a query no worker is confident about, whose routing outcome
\* named only unregistered workers, has ended.
C17_Witness ==
    /\ pc = "END"
    /\ selection.ok
    /\ selection.agents = <<"ghost_agent", "ghost_agent">>
    /\ state.user_query = "hello"
    /\ state.final_report.kind = "no_results"

RECURSIVE LenBefore(_, _, _)
\* The number of items of field f in the successful Results among the
\* first i - 1 entries of ar.
LenBefore(ar, i, f) ==
    IF i <= 1 THEN 0
    ELSE LenBefore(ar, i - 1, f)
           + (IF ar[i - 1][2].success THEN Len(ar[i - 1][2][f]) ELSE 0)

\* The list agg holds, for each successful Result of ar and in the order of
\* ar, the items of its field f, and nothing else.
IsConcatOfSuccessful(agg, ar, f) ==
    /\ Len(agg) = LenBefore(ar, Len(ar) + 1, f)
    /\ \A i \in DOMAIN ar :
          ar[i][2].success =>
              SubSeq(agg, LenBefore(ar, i, f) + 1,
                     LenBefore(ar, i, f) + Len(ar[i][2][f])) = ar[i][2][f]

\* C18: after aggregate_results ran on a non-empty agent_results, the
\* aggregated insights and recommendations are the concatenation, in
\* agent_results order and with duplicates, of those of the Results with
\* success=true, and the aggregated metrics map each such worker's name to
\* its metrics; failed Results contribute nothing.
C18_AggregateSuccessful ==
    (pc \in {"generate_report", "END"} /\ state.agent_results # <<>>) =>
        LET ar == state.agent_results
            agg == state.context.aggregated
            ok == {i \in DOMAIN ar : ar[i][2].success}
        IN /\ agg.kind = "set"
           /\ IsConcatOfSuccessful(agg.insights, ar, "insights")
           /\ IsConcatOfSuccessful(agg.recommendations, ar, "recommendations")
           /\ DictKeys(agg.metrics) = {ar[i][1] : i \in ok}
           /\ Len(agg.metrics) = Cardinality(ok)
           /\ \A i \in ok :
                 DictGet(agg.metrics, ar[i][1]) = ar[i][2].metrics

\* aggregate_results ran on a successful, a failed and another successful
\* Result: four insights, two of them the same, and two metrics entries.
C18_Witness ==
    /\ pc = "generate_report"
    /\ Len(state.agent_results) = 3
    /\ state.agent_results[1][2].success
    /\ ~state.agent_results[2][2].success
    /\ state.agent_results[2][2].insights # <<>>
    /\ state.agent_results[3][2].success
    /\ Len(state.context.aggregated.insights) = 4
    /\ state.context.aggregated.insights[2]
          = state.context.aggregated.insights[4]
    /\ Len(state.context.aggregated.metrics) = 2

\* The registered names of the Registry of the last find_best_agent call.
FBNames == {fb.at_call[i] : i \in DOMAIN fb.at_call}

\* The names whose score for the query of the last call is the maximum.
FBMaxima ==
    {n \in FBNames :
        \A m \in FBNames : Le(can_handle(m, fb.query), can_handle(n, fb.query))}

\* C19: find_best_agent returns a registered worker with the maximum
\* can_handle(query) exactly when that maximum is strictly greater than 0.3,
\* and returns None otherwise: when the maximum is 0.3 or less, or when the
\* Registry is empty.
C19_BestAboveThreshold ==
    fb.called =>
        /\ fb.result \in {None} \cup {<<n>> : n \in FBNames}
        /\ (fb.result # None)
              <=> (\E n \in FBMaxima :
                      Gt(can_handle(n, fb.query), Score(3, 10)))
        /\ fb.result # None => fb.result[1] \in FBMaxima
        /\ FBNames = {} => fb.result = None

\* find_best_agent returned risk_agent, registered second of three, for a
\* query on which it scores 0.38 and the others 0.
C19_Witness ==
    /\ fb.called
    /\ fb.query = "late delivery risk"
    /\ fb.at_call = <<"data_analyst", "risk_agent", "stub_agent">>
    /\ fb.result = <<"risk_agent">>

\* C20: when several registered workers have the maximum score,
\* find_best_agent returns the one registered first, and a second call with
\* the same query on the unchanged Registry returns what the first did.
C20_FirstRegisteredWins ==
    /\ (fb.called /\ fb.result # None) =>
          \A i \in DOMAIN fb.at_call :
              fb.at_call[i] = fb.result[1] =>
                  \A j \in 1..(i - 1) :
                      Gt(can_handle(fb.at_call[i], fb.query),
                         can_handle(fb.at_call[j], fb.query))
    /\ fb.repeated => fb.result = fb.prev

\* risk_agent, registered before data_analyst, was returned twice in a row
\* for a query on which both score 0.38.
C20_Witness ==
    /\ fb.called /\ fb.repeated
    /\ fb.query = "show sales data risk alert delivery"
    /\ fb.at_call = <<"risk_agent", "data_analyst">>
    /\ Gt(can_handle("data_analyst", fb.query), Score(3, 10))
    /\ Le(can_handle("risk_agent", fb.query),
          can_handle("data_analyst", fb.query))
    /\ fb.result = <<"risk_agent">>

\* --------------------------------------------------------------- C21
\* The score is a fraction between 0 and 1.
InUnitInterval(x) == x.den > 0 /\ 0 <= x.num /\ x.num <= x.den

\* C21: every can_handle call, of a keyword-weighted worker or of a worker
\* with the default policy, returns a score in [0, 1], and the default
\* policy returns 0 for a worker without capabilities.
C21_ScoreInUnitInterval ==
    fn.op \in {"can_handle", "add_capability"} =>
        /\ InUnitInterval(fn.score)
        /\ fn.op = "add_capability" => InUnitInterval(fn.before)
        /\ (fn.op = "can_handle" /\ fn.worker = "default_worker"
               /\ fn.capabilities = <<>>) => fn.score.num = 0

\* A query with eight high-confidence keywords (8 * 0.15 = 1.2) was scored
\* by the data analyst and the score is 1.0.
C21_Witness ==
    /\ fn.op = "can_handle"
    /\ fn.worker = "data_analyst"
    /\ Cardinality(Substrings(fn.query)
                    \cap {"data", "query", "sql", "show", "analyze",
                          "calculate", "trend", "compare"}) = 8
    /\ fn.score.num = fn.score.den

\* --------------------------------------------------------------- C22
\* C22: when the capability a default-policy worker adds shares a word with
\* the query, the score of that query after the addition is not below the
\* score before it.
C22_AddMatchingMonotone ==
    (/\ fn.op = "add_capability"
     /\ \E j \in DOMAIN fn.added : fn.added[j] \in Substrings(fn.query))
        => Le(fn.before, fn.score)

\* A matching capability was added to a worker some but not all of whose
\* capabilities matched, and the score rose.
C22_Witness ==
    /\ fn.op = "add_capability"
    /\ \E j \in DOMAIN fn.added : fn.added[j] \in Substrings(fn.query)
    /\ fn.before.num > 0
    /\ fn.before.num < fn.before.den
    /\ Gt(fn.score, fn.before)

\* --------------------------------------------------------------- C23
\* The four risk_score values of the State: num / den each.
Signals ==
    <<risk_score_of(ra.ch.delivery_data), risk_score_of(ra.ch.inventory_data),
      risk_score_of(ra.ch.quality_data), risk_score_of(ra.ch.financial_data)>>

\* x = (4 d + 3 i + 2 q + 1 f) / 10 for the signals sig = <<d, i, q, f>>.
IsWeightedSum(x, sig) ==
    x.num * (10 * sig[1].den * sig[2].den * sig[3].den * sig[4].den)
      = x.den * ( 4 * sig[1].num * sig[2].den * sig[3].den * sig[4].den
                + 3 * sig[2].num * sig[1].den * sig[3].den * sig[4].den
                + 2 * sig[3].num * sig[1].den * sig[2].den * sig[4].den
                + 1 * sig[4].num * sig[1].den * sig[2].den * sig[3].den)

\* The signals are (0.8, 0.2, 0.0, 1.0).
ExampleSignals ==
    /\ Signals[1].num * 5 = 4 * Signals[1].den
    /\ Signals[2].num * 5 = 1 * Signals[2].den
    /\ Signals[3].num = 0
    /\ Signals[4].num = Signals[4].den

\* C23: the overall score of an assessment is 0.4 * delivery + 0.3 *
\* inventory + 0.2 * quality + 0.1 * financial, the four weights sum to 1,
\* and the signals (0.8, 0.2, 0.0, 1.0) give 0.48, classified MEDIUM.
C23_WeightedSum ==
    /\ LET w == RAdd(RAdd(RAdd(risk_weights("delivery"),
                               risk_weights("inventory")),
                          risk_weights("quality")),
                     risk_weights("financial"))
       IN w.num = w.den
    /\ ra.ch.risk_assessment # None =>
         /\ IsWeightedSum(ra.ch.risk_assessment[1], Signals)
         /\ ExampleSignals =>
              /\ ra.ch.risk_assessment[1].num * 100
                    = 48 * ra.ch.risk_assessment[1].den
              /\ ra.ch.risk_assessment[2] = "MEDIUM"

\* An assessment was made of the signals (0.8, 0.2, 0.0, 1.0).
C23_Witness ==
    /\ ra.ch.risk_assessment # None
    /\ ExampleSignals

\* --------------------------------------------------------------- C24
\* The order of the labels.
SeverityRank(label) ==
    CASE label = "LOW" -> 0
      [] label = "MEDIUM" -> 1
      [] label = "HIGH" -> 2
      [] label = "CRITICAL" -> 3

\* C24: _classify_severity returns CRITICAL for a score of at least 0.7,
\* else HIGH for at least 0.5, else MEDIUM for at least 0.3, else LOW (so
\* 0.5 is HIGH and 0.3 is MEDIUM), and of two calls the one with the larger
\* score never gets the lower label.
C24_ClassifySeverity ==
    fn.op = "classify_severity" =>
        /\ fn.label =
             (IF 10 * fn.score.num >= 7 * fn.score.den THEN "CRITICAL"
              ELSE IF 10 * fn.score.num >= 5 * fn.score.den THEN "HIGH"
              ELSE IF 10 * fn.score.num >= 3 * fn.score.den THEN "MEDIUM"
              ELSE "LOW")
        /\ (2 * fn.score.num = fn.score.den) => fn.label = "HIGH"
        /\ (10 * fn.score.num = 3 * fn.score.den) => fn.label = "MEDIUM"
        /\ (fn.prev_label # "-" /\ Le(fn.prev_score, fn.score)) =>
              SeverityRank(fn.prev_label) <= SeverityRank(fn.label)

\* A score of exactly 0.5 was classified after a score of exactly 0.3.
C24_Witness ==
    /\ fn.op = "classify_severity"
    /\ 2 * fn.score.num = fn.score.den
    /\ fn.prev_label # "-"
    /\ 10 * fn.prev_score.num = 3 * fn.prev_score.den

\* --------------------------------------------------------------- C25
\* C25: each of the four risk_score values of the State lies in [0, 1], and
\* so does the overall score of an assessment.
C25_SignalsInUnitInterval ==
    /\ \A i \in 1..4 : InUnitInterval(Signals[i])
    /\ ra.ch.risk_assessment # None =>
          InUnitInterval(ra.ch.risk_assessment[1])

\* --------------------------------------------------------------- C26
\* The State entries of the four gather nodes.
GatherFields ==
    <<ra.ch.delivery_data, ra.ch.inventory_data, ra.ch.quality_data,
      ra.ch.financial_data>>

\* The gather nodes whose storage call failed.
FailedGathers == {i \in 1..4 : GatherFields[i].kind = "error"}

\* C26: a gather node whose storage call failed stores the signal 0.0 and
\* no error in the State; the run still goes through the other gather nodes
\* and the assessment (four storage calls and the assessment call are
\* made), the overall score is the weighted sum with 0.0 for the failed
\* signals, and the Result is successful whenever the assessment call
\* succeeded.
C26_MissingSignalIsZero ==
    /\ \A i \in FailedGathers : Signals[i].num = 0
    /\ (FailedGathers # {} /\ ra.node \in {"END", "returned"}) =>
          /\ \A i \in 1..4 : GatherFields[i].kind # "absent"
          /\ ra.ncalls >= 5
          /\ ra.ch.risk_assessment # None =>
                /\ ra.ch.error = None
                /\ IsWeightedSum(ra.ch.risk_assessment[1],
                       [i \in 1..4 |->
                           IF i \in FailedGathers THEN Score(0, 1)
                           ELSE Signals[i]])
    /\ (FailedGathers # {} /\ ra.node = "returned"
          /\ ra.ch.risk_assessment # None) => ra.result.success

\* The delivery query failed, the other three signals were gathered, the
\* assessment was made and the Result is successful.
C26_Witness ==
    /\ ra.node = "returned"
    /\ FailedGathers = {1}
    /\ Signals[2].num > 0
    /\ ra.ch.risk_assessment # None
    /\ ra.ch.risk_assessment[1].num > 0
    /\ ra.result.success

\* --------------------------------------------------------------- C27
\* The executor ran execute_query_node and its conditional edge in this step.
ExecuteQueryStep ==
    /\ da.node = "execute_query"
    /\ da'.node \in {"generate_sql", "analyze_results", "END"}

\* C27: after execute_query the run goes to generate_sql when error is set
\* and retry_count < max_retries, to END with the error still set when error
\* is set and retry_count >= max_retries, and to analyze_results when error
\* is not set.
C27_Router ==
    [][ExecuteQueryStep =>
          /\ (da'.ch.error # None /\ da'.ch.retry_count < max_retries)
                => da'.node = "generate_sql"
          /\ (da'.ch.error # None /\ da'.ch.retry_count >= max_retries)
                => da'.node = "END"
          /\ da'.ch.error = None => da'.node = "analyze_results"]_vars

\* The run was routed back to generate_sql after a first failed execution
\* and to END, with the error set, after the second.
C27_Witness ==
    /\ da.node = "END"
    /\ da.ch.error # None
    /\ da.ch.retry_count = max_retries
    /\ da.g.exec_failures = 2

\* --------------------------------------------------------------- C28
\* C28: a successful execute_query stores the rows and leaves State.error
\* unset; every other execute_query (the storage call raised, or there was
\* no candidate) leaves State.error set and retry_count one higher.
C28_ExecuteQuery ==
    [][ExecuteQueryStep =>
          IF /\ da.ch.sql_query # None
             /\ da'.g.exec_failures = da.g.exec_failures
          THEN /\ da'.ch.query_results # "absent"
               /\ da'.ch.error = None
          ELSE /\ da'.ch.error # None
               /\ da'.ch.retry_count = da.ch.retry_count + 1]_vars

\* --------------------------------------------------------------- C29
\* C29: when generate_sql makes its inference call while State.error is set,
\* the prompt includes the text of State.error.
C29_ErrorInPrompt ==
    [][(/\ da.node = "generate_sql"
        /\ da'.g.gen_calls = da.g.gen_calls + 1
        /\ da.ch.error # None)
          => da'.g.prompt_error = da.ch.error]_vars

\* --------------------------------------------------------------- C30
\* The run ended through the 'end' route: the last execution failed with
\* retry_count at max_retries.
EndedOnFinalAttempt ==
    /\ da.node = "returned"
    /\ da.ch.error # None
    /\ da.ch.retry_count >= max_retries

\* The metrics of the Result name the number of attempts.
AttemptsCarried(result) ==
    \E key \in {"attempts", "retry_count", "retries"} :
        key \in DOMAIN result.metrics

\* C30: the Result of a run that ended on the final allowed attempt has
\* success = false, the last error text, and the number of attempts.
C30_FinalFailureSurfaced ==
    EndedOnFinalAttempt =>
        /\ ~da.result.success
        /\ da.result.metrics.error = da.g.last_exec_error
        /\ AttemptsCarried(da.result)

\* --------------------------------------------------------------- C31
\* The storage call of this execute_query step returned rows.
ExecutionSucceeded ==
    /\ ExecuteQueryStep
    /\ da.ch.sql_query # None
    /\ da'.g.exec_failures = da.g.exec_failures

\* C31: when an execution succeeds after an earlier execution of the run
\* failed, the run goes on to analyze_results with State.error not set, and
\* the Result of a run that recovered in this way has success = true.
C31_RecoveryClearsError ==
    [][/\ (ExecutionSucceeded /\ da.g.exec_failures >= 1) =>
            /\ da'.node = "analyze_results"
            /\ da'.ch.error = None
       /\ ( /\ da'.node = "returned"
            /\ da'.g.exec_failures >= 1
            /\ da'.g.exec_calls > da'.g.exec_failures
            /\ da'.ch.retry_count < max_retries) => da'.result.success]_vars

\* --------------------------------------------------------------- C32
\* C32: in one run generate_sql is entered at most max_retries + 1 times.
C32_GenerateBounded == da.g.gen_entered <= max_retries + 1

\* --------------------------------------------------------------- C33
\* s is an initial part of t.
IsPrefix(s, t) == Len(s) <= Len(t) /\ \A i \in DOMAIN s : s[i] = t[i]

\* C33: the stages that have run are an initial part of parse_query,
\* plan_task, select_agents, execute_agents, aggregate_results,
\* generate_report; a run that has not ended can take a step, and a run that
\* has ended has run all six, whether or not State.error was set on the way.
C33_StagesInOrder ==
    /\ IsPrefix(stages, AllStages)
    /\ pc \notin {"idle", "END"} =>
          /\ pc = AllStages[Len(stages) + 1]
          /\ ENABLED Next
    /\ pc = "END" => stages = AllStages

\* A run whose planning call failed, so that State.error was set in the
\* second stage, has ended after all six stages.
C33_Witness ==
    /\ pc = "END"
    /\ state.task_plan = None
    /\ state.error # None
    /\ stages = AllStages

\* --------------------------------------------------------------- C34
\* C34: in every State the key _route_after_execution returns is 'analyze',
\* 'retry' or 'end' and is in the table of its edge; once workflow_type is
\* set the key _route_workflow returns is 'alert', 'task', 'email' or
\* 'meeting' and is in the table of its edge; every target of both tables
\* is a node of its graph or END; and the edge after load_stakeholders has
\* selected a node of the email graph.
C34_RouterKeysInTable ==
    /\ route_after_execution(da.ch) \in {"analyze", "retry", "end"}
    /\ route_after_execution(da.ch) \in DOMAIN RouteTable
    /\ \A key \in DOMAIN RouteTable : RouteTable[key] \in DA_nodes \cup {"END"}
    /\ em.ch.workflow_type # "absent" =>
          /\ route_workflow(em.ch) \in {"alert", "task", "email", "meeting"}
          /\ route_workflow(em.ch) \in DOMAIN WorkflowTable
    /\ \A key \in DOMAIN WorkflowTable :
          WorkflowTable[key] \in EM_nodes \cup {"END"}
    /\ em.key # "-" => (em.key \in DOMAIN WorkflowTable /\ em.node \in EM_nodes)

\* A query classified as 'meeting_agenda' was routed with the key 'meeting'
\* to draft_emails.
C34_Witness ==
    /\ em.ch.workflow_type = "meeting_agenda"
    /\ em.key = "meeting"
    /\ em.node = "draft_emails"

\* --------------------------------------------------------------- C35
\* C35: the State a call of execute builds has error = None, result = None
\* and a context without any key a node of an earlier call wrote, and the
\* dict the caller holds keeps the keys it had before the first call.
C35_FreshState ==
    /\ cx.caller = CallerContext0
    /\ cx.node = "parse_query" =>
          /\ cx.error = None
          /\ cx.result = None
          /\ cx.context.keys \cap parse_query_writes = {}

\* --------------------------------------------------------------- C36
\* C36: when the routing inference call failed, the select stage has
\* recorded the failure in State.error and left selected_agents empty, no
\* worker call is made, and the run ends with the report 'No results
\* available to generate report.'.
C36_SelectionFailure ==
    (Selected /\ ~selection.ok) =>
        /\ state.error = <<"Agent selection failed: ", selection.e>>
        /\ state.selected_agents = <<>>
        /\ calls = <<>>
        /\ exec_log = <<>>
        /\ state.agent_results = <<>>
        /\ pc = "END" => state.final_report = [kind |-> "no_results"]
        /\ pc # "END" => ENABLED Next

\* The routing call failed for a query that has a best match above the
\* threshold, and the run has ended.
C36_Witness ==
    /\ pc = "END"
    /\ Selected
    /\ ~selection.ok
    /\ find_best_agent(state.user_query) # <<>>
    /\ state.final_report = [kind |-> "no_results"]

\* --------------------------------------------------------------- C37
\* C37: the candidate a storage call executes is the one the generation
\* call of the generate_sql step just before it returned: the number of the
\* candidate is the number of generation calls made so far.
C37_FreshCandidate ==
    [][(ExecuteQueryStep /\ execute_query_calls_db(da.ch)) =>
          da.ch.sql_query = <<"sql", da.g.gen_calls>>]_vars

\* --------------------------------------------------------------- C38
\* C38: retry_count never exceeds max_retries and is the number of storage
\* calls of the run that have raised.
C38_RetryCount ==
    /\ da.ch.retry_count <= max_retries
    /\ da.ch.retry_count = da.g.exec_failures

\* A run has returned after two storage calls, both of which raised.
C38_Witness ==
    /\ da.node = "returned"
    /\ da.g.exec_calls = 2
    /\ da.g.exec_failures = 2
    /\ da.ch.retry_count = max_retries

\* --------------------------------------------------------------- C39
\* C39: in sequential mode the '<name>_result' entries of the context
\* handed to a worker are those of exactly the earlier workers whose Result
\* has success = true.
C39_OnlySuccessfulInContext ==
    \A i \in DOMAIN calls : SeqCalled(i) =>
        DictKeys(calls[i].received)
          = {ResultKey(tasks[j]) :
                j \in {m \in 1..(i - 1) : /\ calls[m].status = "returned"
                                          /\ calls[m].out.success}}

\* --------------------------------------------------------------- C40
\* C40: a Result of the risk agent that reports an assessment carries the
\* locally computed weighted sum as overall_risk_score and classify_severity
\* of that sum as overall_severity; when the assessment call failed the
\* Result has success = FALSE, severity 'UNKNOWN' and no alert.
C40_CalculatedOverridesReturned ==
    ra.node = "returned" =>
        /\ ra.result.insights # <<>> =>
              /\ ra.result.metrics.overall_risk_score = overall_score(ra.ch)
              /\ ra.result.metrics.overall_severity
                    = classify_severity(overall_score(ra.ch))
        /\ ra.ch.error # None =>
              /\ ra.ch.error[1] = "Risk assessment failed: "
              /\ ~ra.result.success
              /\ ra.result.insights = <<>>
              /\ ra.result.metrics.overall_severity = "UNKNOWN"
              /\ ~ra.result.metrics.should_alert

\* A Result reporting an assessment whose calculated severity is neither of
\* the severities the assessment call can return by itself.
C40_Witness ==
    /\ ra.node = "returned"
    /\ ra.result.insights # <<>>
    /\ ra.result.metrics.overall_severity \in {"MEDIUM", "HIGH"}
    /\ ra.result.success

====
